---- MODULE Spec2Model ----
(***************************************************************************)
(* python-gdsii: the GDSII record layer (pygdsii/__init__.py) and the      *)
(* object-oriented reader/writer built on it (gdsii/library.py,            *)
(* gdsii/structure.py, gdsii/elements.py, gdsii/_records.py,               *)
(* gdsii/_utils.py).                                                       *)
(*                                                                         *)
(* A record (RecordData) is the pair <<tag, data>>.  data is always a      *)
(* sequence: <<>> for NODATA (None), <<v>> for BITARRAY, the tuple of      *)
(* values for INT2 / INT4 / REAL8 and the byte string for ASCII.           *)
(***************************************************************************)
EXTENDS Integers, Sequences, FiniteSets, TLC

(***************************************************************************)
(* class GDSII: record tags (tag = kind * 256 + data type).                *)
(***************************************************************************)
HEADER == 2
BGNLIB == 258
LIBNAME == 518
UNITS == 773
ENDLIB == 1024
BGNSTR == 1282
STRNAME == 1542
ENDSTR == 1792
BOUNDARY == 2048
PATH == 2304
SREF == 2560
AREF == 2816
TEXT == 3072
LAYER == 3330
DATATYPE == 3586
WIDTH == 3843
XY == 4099
ENDEL == 4352
SNAME == 4614
COLROW == 4866
TEXTNODE == 5120
NODE == 5376
TEXTTYPE == 5634
PRESENTATION == 5889
STRINGTAG == 6406
STRANS == 6657
MAG == 6917
ANGLE == 7173
REFLIBS == 7942
FONTS == 8198
PATHTYPE == 8450
GENERATIONS == 8706
ATTRTABLE == 8966
ELFLAGS == 9729
NODETYPE == 10754
PROPATTR == 11010
PROPVALUE == 11270
BOX == 11520
BOXTYPE == 11778
PLEX == 12035
BGNEXTN == 12291
ENDEXTN == 12547
STRCLASS == 13313
FORMAT == 13826
MASK == 14086
ENDMASKS == 14336
LIBDIRSIZE == 14594
SRFNAME == 14854
LIBSECUR == 15106

(***************************************************************************)
(* class GDSIIType: data types, the low byte of a tag.                     *)
(***************************************************************************)
NODATA == 0
BITARRAY == 1
INT2 == 2
INT4 == 3
REAL4 == 4
REAL8 == 5
ASCII == 6

\* type_of_tag(tag): tag & 0xff
type_of_tag(tag) ==
    tag % 256

(***************************************************************************)
(* RecordData: tag and parsed data.                                        *)
(***************************************************************************)
RecordData(tag, data) ==
    <<tag, data>>

Tag(rec) ==
    rec[1]

Data(rec) ==
    rec[2]

\* the value of BufferedGenerator._current before the first next()
NoRecord ==
    <<0 - 1, <<>>>>

(***************************************************************************)
(* Exceptions: <<class name, argument>>.  NoError: nothing was raised.     *)
(***************************************************************************)
NoError ==
    <<"", 0 - 1>>

Raised(kind, arg) ==
    <<kind, arg>>

\* the first exception of a sequence of checks, NoError when every one passes
FirstError(checks) ==
    IF \A i \in DOMAIN checks : checks[i] = NoError THEN NoError
    ELSE checks[CHOOSE i \in DOMAIN checks :
                    /\ checks[i] # NoError
                    /\ \A j \in 1..(i - 1) : checks[j] = NoError]

\* RecordData.check_tag(tag): MissingRecord(self._tag) unless the tags agree
check_tag(rec, tag) ==
    IF Tag(rec) # tag THEN Raised("MissingRecord", Tag(rec)) ELSE NoError

\* RecordData.check_size(size): DataSizeError(self._tag) unless len(data) = size
check_size(rec, size) ==
    IF Len(Data(rec)) # size THEN Raised("DataSizeError", Tag(rec)) ELSE NoError

(***************************************************************************)
(* Python values.  A datetime is <<year, month, day, hour, minute,         *)
(* second>>; a float is <<sign, exponent, mantissa>>, the fields of its    *)
(* IEEE-754 double (mantissa: 13 hexadecimal digits, most significant      *)
(* first).                                                                 *)
(***************************************************************************)
DaysInMonth(y, m) ==
    IF m \in {4, 6, 9, 11} THEN 30
    ELSE IF m # 2 THEN 31
    ELSE IF (y % 4 = 0 /\ y % 100 # 0) \/ y % 400 = 0 THEN 29
    ELSE 28

\* datetime(year, month, day, hour, minute, second) raises ValueError
\* for a field out of range
datetime_ok(y, m, d, h, mi, s) ==
    /\ y \in 1..9999
    /\ m \in 1..12
    /\ d >= 1 /\ d <= DaysInMonth(y, m)
    /\ h \in 0..23
    /\ mi \in 0..59
    /\ s \in 0..59

\* RecordData.times: the exception it raises, NoError when it returns
times_error(rec) ==
    LET d == Data(rec) IN
    IF Len(d) # 12 THEN Raised("DataSizeError", Tag(rec))
    ELSE IF ~ datetime_ok(d[1] + 1900, d[2], d[3], d[4], d[5], d[6])
            \/ ~ datetime_ok(d[7] + 1900, d[8], d[9], d[10], d[11], d[12])
         THEN Raised("ValueError", Tag(rec))
    ELSE NoError

\* RecordData.times that takes the stored years as they are
times_raw(rec) ==
    LET d == Data(rec) IN
    << <<d[1], d[2], d[3], d[4], d[5], d[6]>>,
       <<d[7], d[8], d[9], d[10], d[11], d[12]>> >>

\* RecordData.times: (modification time, access time)
times(rec) ==
    LET d == Data(rec) IN
    << <<d[1] + 1900, d[2], d[3], d[4], d[5], d[6]>>,
       <<d[7] + 1900, d[8], d[9], d[10], d[11], d[12]>> >>

\* RecordData.points: the exception it raises, NoError when it returns
points_error(rec) ==
    LET n == Len(Data(rec)) IN
    IF n = 0 \/ n % 2 # 0 THEN Raised("DataSizeError", Tag(rec)) ELSE NoError

\* RecordData.points that pairs (data[i+1], data[i])
points_swapped(rec) ==
    [i \in 1..(Len(Data(rec)) \div 2) |->
        <<Data(rec)[2 * i], Data(rec)[2 * i - 1]>>]

\* RecordData.points: [(data[i], data[i+1]) for i in range(0, n, 2)]
points(rec) ==
    [i \in 1..(Len(Data(rec)) \div 2) |->
        <<Data(rec)[2 * i - 1], Data(rec)[2 * i]>>]

(***************************************************************************)
(* The record layer, byte by byte.  A byte string is a sequence of         *)
(* numbers in 0..255.  A function that may raise returns [err, val]: the   *)
(* exception (NoError when it returns) and the value returned.             *)
(***************************************************************************)
\* the concatenation of a sequence of sequences
RECURSIVE Concat(_)
Concat(seqs) ==
    IF seqs = <<>> THEN <<>> ELSE Head(seqs) \o Concat(Tail(seqs))

Returns(val) ==
    [err |-> NoError, val |-> val]

Raises(kind, arg) ==
    [err |-> Raised(kind, arg), val |-> <<>>]

\* the results of a sequence of calls, or the first exception among them
Collect(results) ==
    IF \A i \in DOMAIN results : results[i].err = NoError
    THEN Returns([i \in DOMAIN results |-> results[i].val])
    ELSE [err |-> FirstError([i \in DOMAIN results |-> results[i].err]),
          val |-> <<>>]

\* struct.pack('>H', v): struct.error unless 0 <= v <= 0xFFFF
pack_H(v) ==
    IF v < 0 \/ v > 65535 THEN Raises("struct.error", v)
    ELSE Returns(<<v \div 256, v % 256>>)

\* struct.unpack('>H', b)
unpack_H(b) ==
    b[1] * 256 + b[2]

\* struct.pack('>h', v): two's complement, struct.error out of range
pack_h(v) ==
    IF v < 0 - 32768 \/ v > 32767 THEN Raises("struct.error", v)
    ELSE pack_H(v % 65536)

\* struct.unpack('>h', b)
unpack_h(b) ==
    IF unpack_H(b) >= 32768 THEN unpack_H(b) - 65536 ELSE unpack_H(b)

\* struct.pack('>l', v) for the values a 32-bit integer can take
pack_l(v) ==
    LET u == IF v < 0 THEN (v + 2147483647) + 1 ELSE v
        top == IF v < 0 THEN 128 ELSE 0 IN
    Returns(<<top + u \div 16777216, (u \div 65536) % 256, (u \div 256) % 256,
              u % 256>>)

\* struct.unpack('>l', b)
unpack_l(b) ==
    LET u == (b[1] % 128) * 16777216 + b[2] * 65536 + b[3] * 256 + b[4] IN
    IF b[1] >= 128 THEN (u - 2147483647) - 1 ELSE u

\* the bytes i*n+1 .. i*n+n of data, for i = 0 .. len(data)/n - 1
Chunks(data, n) ==
    [i \in 1..(Len(data) \div n) |-> SubSeq(data, (i - 1) * n + 1, i * n)]

\* _parse_nodata: None (here the empty tuple) for an empty payload
_parse_nodata(data) ==
    IF Len(data) # 0 THEN Raises("IncorrectDataSize", NODATA)
    ELSE Returns(<<>>)

\* _parse_bitarray: the one 16-bit value (held here in a tuple of one)
_parse_bitarray(data) ==
    IF Len(data) # 2 THEN Raises("IncorrectDataSize", BITARRAY)
    ELSE Returns(<<unpack_H(data)>>)

\* _parse_int2 that accepts the empty payload
_parse_int2_empty(data) ==
    IF Len(data) % 2 # 0
    THEN Raises("IncorrectDataSize", INT2)
    ELSE Returns([i \in 1..(Len(data) \div 2) |->
                     unpack_h(Chunks(data, 2)[i])])


\* _parse_int2
_parse_int2(data) ==
    IF Len(data) = 0 \/ Len(data) % 2 # 0
    THEN Raises("IncorrectDataSize", INT2)
    ELSE Returns([i \in 1..(Len(data) \div 2) |->
                     unpack_h(Chunks(data, 2)[i])])

\* _parse_int4 that only refuses the empty payload
_parse_int4_floor(data) ==
    IF Len(data) = 0 THEN Raises("IncorrectDataSize", INT4)
    ELSE Returns([i \in 1..(Len(data) \div 4) |->
                     unpack_l(Chunks(data, 4)[i])])

\* _parse_int4
_parse_int4(data) ==
    IF Len(data) = 0 \/ Len(data) % 4 # 0
    THEN Raises("IncorrectDataSize", INT4)
    ELSE Returns([i \in 1..(Len(data) \div 4) |->
                     unpack_l(Chunks(data, 4)[i])])

\* _parse_ascii that strips every trailing NUL
RECURSIVE _parse_ascii_rstrip(_)
_parse_ascii_rstrip(data) ==
    IF Len(data) = 0 THEN Raises("IncorrectDataSize", ASCII)
    ELSE IF data[Len(data)] # 0 THEN Returns(data)
    ELSE IF Len(data) = 1 THEN Returns(<<>>)
    ELSE _parse_ascii_rstrip(SubSeq(data, 1, Len(data) - 1))

\* _parse_ascii: the payload without one trailing NUL
_parse_ascii(data) ==
    IF Len(data) = 0 THEN Raises("IncorrectDataSize", ASCII)
    ELSE IF data[Len(data)] = 0 THEN Returns(SubSeq(data, 1, Len(data) - 1))
    ELSE Returns(data)

\* _pack_nodata
_pack_nodata(data) ==
    Returns(<<>>)

\* _pack_bitarray
_pack_bitarray(data) ==
    pack_H(data[1])

\* the byte strings of parts one after another, or the first exception
Join(parts) ==
    IF Collect(parts).err # NoError THEN Collect(parts)
    ELSE Returns(Concat(Collect(parts).val))

\* _pack_int2
_pack_int2(data) ==
    Join([i \in DOMAIN data |-> pack_h(data[i])])

\* _pack_int4
_pack_int4(data) ==
    Join([i \in DOMAIN data |-> pack_l(data[i])])

(***************************************************************************)
(* Reals.  A Python float is <<sign, exponent, mantissa>>, the fields of   *)
(* its IEEE double: the sign bit, the 11-bit biased exponent and the 52    *)
(* mantissa bits as 13 hexadecimal digits.  A 64-bit integer is its 8      *)
(* bytes, most significant first.                                          *)
(***************************************************************************)
HexBits(h) ==
    <<h \div 8, (h \div 4) % 2, (h \div 2) % 2, h % 2>>

\* the bits of a sequence of hexadecimal digits, and back
BitsOfHex(hexes) ==
    Concat([i \in DOMAIN hexes |-> HexBits(hexes[i])])

HexOfBits(bits) ==
    [i \in 1..(Len(bits) \div 4) |->
        8 * bits[4 * i - 3] + 4 * bits[4 * i - 2] + 2 * bits[4 * i - 1]
        + bits[4 * i]]

\* the bytes of a sequence of bits, and back
BytesOfBits(bits) ==
    [i \in 1..(Len(bits) \div 8) |->
        16 * HexOfBits(bits)[2 * i - 1] + HexOfBits(bits)[2 * i]]

BitsOfBytes(bytes) ==
    Concat([i \in DOMAIN bytes |->
               HexBits(bytes[i] \div 16) \o HexBits(bytes[i] % 16)])

Zeros(n) ==
    [i \in 1..n |-> 0]

\* bits + 1, one bit longer when every bit is 1
RECURSIVE Increment(_)
Increment(bits) ==
    IF bits = <<>> THEN <<1>>
    ELSE IF bits[Len(bits)] = 0
    THEN SubSeq(bits, 1, Len(bits) - 1) \o <<1>>
    ELSE LET front == Increment(SubSeq(bits, 1, Len(bits) - 1)) IN
         front \o <<0>>

\* the number a short sequence of bits is
RECURSIVE BitsValue(_)
BitsValue(bits) ==
    IF bits = <<>> THEN 0
    ELSE 2 * BitsValue(SubSeq(bits, 1, Len(bits) - 1)) + bits[Len(bits)]

\* _real_to_int that shifts the mantissa by a whole hexadecimal digit when
\* it rounds the exponent up
_real_to_int_digit(fnum) ==
    LET sign == fnum[1]
        ieee_exp == fnum[2]
        unb_ieee_exp == ieee_exp - 1023
        ieee_mant_full == <<1>> \o BitsOfHex(fnum[3]) \o <<0, 0, 0>>
        rest0 == (unb_ieee_exp + 1) % 4
        rest == IF rest0 # 0 THEN 4 ELSE 0
        exp16 == (unb_ieee_exp + 1) \div 4 + (IF rest0 # 0 THEN 1 ELSE 0)
        ieee_mant_comp == Zeros(rest) \o SubSeq(ieee_mant_full, 1, 56 - rest)
        exp16_biased == exp16 + 64 IN
    IF ieee_exp = 0 THEN Returns(Zeros(8))
    ELSE IF exp16_biased < 0 - 14 THEN Returns(Zeros(8))
    ELSE IF exp16_biased < 0 THEN Raises("ValueError", exp16_biased * 4)
    ELSE IF exp16_biased > 127 THEN Raises("FormatError", exp16_biased)
    ELSE Returns(<<128 * sign + exp16_biased>>
                 \o BytesOfBits(ieee_mant_comp))


\* _real_to_int without the test of an exponent above 0x7f
_real_to_int_wrap(fnum) ==
    LET sign == fnum[1]
        ieee_exp == fnum[2]
        unb_ieee_exp == ieee_exp - 1023
        ieee_mant_full == <<1>> \o BitsOfHex(fnum[3]) \o <<0, 0, 0>>
        rest0 == (unb_ieee_exp + 1) % 4
        rest == IF rest0 # 0 THEN 4 - rest0 ELSE 0
        exp16 == (unb_ieee_exp + 1) \div 4 + (IF rest0 # 0 THEN 1 ELSE 0)
        ieee_mant_comp == Zeros(rest) \o SubSeq(ieee_mant_full, 1, 56 - rest)
        exp16_biased == exp16 + 64 IN
    IF ieee_exp = 0 THEN Returns(Zeros(8))
    ELSE IF exp16_biased < 0 - 14 THEN Returns(Zeros(8))
    ELSE IF exp16_biased < 0 THEN Raises("ValueError", exp16_biased * 4)
    ELSE Returns(<<(128 * sign + exp16_biased) % 256>>
                 \o BytesOfBits(ieee_mant_comp))

\* _real_to_int(fnum): the 64-bit GDSII real of a float
_real_to_int(fnum) ==
    LET sign == fnum[1]
        ieee_exp == fnum[2]
        unb_ieee_exp == ieee_exp - 1023
        \* (ieee_mant + 0x10000000000000) << 3, as 56 bits
        ieee_mant_full == <<1>> \o BitsOfHex(fnum[3]) \o <<0, 0, 0>>
        rest0 == (unb_ieee_exp + 1) % 4
        rest == IF rest0 # 0 THEN 4 - rest0 ELSE 0
        exp16 == (unb_ieee_exp + 1) \div 4 + (IF rest0 # 0 THEN 1 ELSE 0)
        ieee_mant_comp == Zeros(rest) \o SubSeq(ieee_mant_full, 1, 56 - rest)
        exp16_biased == exp16 + 64 IN
    IF ieee_exp = 0 THEN Returns(Zeros(8))
    ELSE IF exp16_biased < 0 - 14 THEN Returns(Zeros(8))
    ELSE IF exp16_biased < 0 THEN Raises("ValueError", exp16_biased * 4)
    ELSE IF exp16_biased > 127 THEN Raises("FormatError", exp16_biased)
    ELSE Returns(<<128 * sign + exp16_biased>>
                 \o BytesOfBits(ieee_mant_comp))

\* float(n) for an integer n of 56 bits, not 0: <<its exponent, its 52
\* mantissa bits>>, rounded to nearest, ties to even
FloatOfInt(mant) ==
    LET p == CHOOSE i \in 1..56 :
                 mant[i] = 1 /\ \A j \in 1..(i - 1) : mant[j] = 0
        tail == SubSeq(mant, p + 1, 56)
        kept == SubSeq(tail, 1, 52)
        lost == SubSeq(tail, 53, Len(tail))
        half == IF lost = <<>> THEN 1 ELSE BitsValue(<<1>> \o Zeros(Len(lost) - 1))
        up == /\ lost # <<>>
              /\ \/ BitsValue(lost) > half
                 \/ BitsValue(lost) = half /\ kept[52] = 1 IN
    IF Len(tail) <= 52 THEN <<56 - p, tail \o Zeros(52 - Len(tail))>>
    ELSE IF ~ up THEN <<56 - p, kept>>
    ELSE IF Len(Increment(kept)) = 53 THEN <<57 - p, Zeros(52)>>
    ELSE <<56 - p, Increment(kept)>>

\* _int_to_real that takes a mantissa whose first hexadecimal digit is zero
\* for zero
_int_to_real_flush(num) ==
    LET sgn == num[1] \div 128
        exp == num[1] % 128
        mant == BitsOfBytes(SubSeq(num, 2, 8)) IN
    IF mant = Zeros(56) \/ num[2] < 16 THEN <<0, 0, Zeros(13)>>
    ELSE <<sgn, FloatOfInt(mant)[1] + 4 * (exp - 64) - 56 + 1023,
           HexOfBits(FloatOfInt(mant)[2])>>


\* _int_to_real(num): math.ldexp(sgn * mant, 4 * (exp - 64) - 56)
_int_to_real(num) ==
    LET sgn == num[1] \div 128
        exp == num[1] % 128
        mant == BitsOfBytes(SubSeq(num, 2, 8)) IN
    IF mant = Zeros(56) THEN <<0, 0, Zeros(13)>>
    ELSE <<sgn, FloatOfInt(mant)[1] + 4 * (exp - 64) - 56 + 1023,
           HexOfBits(FloatOfInt(mant)[2])>>

\* _parse_real8
_parse_real8(data) ==
    IF Len(data) = 0 \/ Len(data) % 8 # 0
    THEN Raises("IncorrectDataSize", REAL8)
    ELSE Returns([i \in 1..(Len(data) \div 8) |->
                     _int_to_real(Chunks(data, 8)[i])])

\* _pack_real8
_pack_real8(data) ==
    Join([i \in DOMAIN data |-> _real_to_int(data[i])])

\* _pack_ascii that adds nothing
_pack_ascii_unpadded(data) ==
    Returns(data)

\* _pack_ascii: a NUL added to an odd length
_pack_ascii(data) ==
    IF Len(data) % 2 # 0 THEN Returns(data \o <<0>>) ELSE Returns(data)

\* the keys of _PARSE_FUNCS and of _PACK_FUNCS
SupportedTypes ==
    {NODATA, BITARRAY, INT2, INT4, REAL8, ASCII}

\* _PARSE_FUNCS[typ](data)
_PARSE_FUNCS(typ, data) ==
    CASE typ = NODATA -> _parse_nodata(data)
      [] typ = BITARRAY -> _parse_bitarray(data)
      [] typ = INT2 -> _parse_int2(data)
      [] typ = INT4 -> _parse_int4(data)
      [] typ = REAL8 -> _parse_real8(data)
      [] typ = ASCII -> _parse_ascii(data)

\* _PACK_FUNCS[typ](data)
_PACK_FUNCS(typ, data) ==
    CASE typ = NODATA -> _pack_nodata(data)
      [] typ = BITARRAY -> _pack_bitarray(data)
      [] typ = INT2 -> _pack_int2(data)
      [] typ = INT4 -> _pack_int4(data)
      [] typ = REAL8 -> _pack_real8(data)
      [] typ = ASCII -> _pack_ascii(data)

\* stream.read(n) at position pos (bytes before it are read): the bytes
\* that are there, at most n
StreamRead(stream, pos, n) ==
    SubSeq(stream, pos + 1, IF pos + n <= Len(stream) THEN pos + n
                            ELSE Len(stream))

\* _read_record without the test of an odd data_size
_read_record_odd(stream, pos) ==
    LET header == StreamRead(stream, pos, 4)
        data_size == unpack_H(SubSeq(header, 1, 2))
        tag == unpack_H(SubSeq(header, 3, 4))
        data == StreamRead(stream, pos + 4, data_size - 4)
        failed(kind, arg, at) ==
            [err |-> Raised(kind, arg), tag |-> 0 - 1, data |-> <<>>,
             pos |-> at] IN
    IF Len(header) # 4
    THEN failed("EndOfFileError", 0 - 1, pos + Len(header))
    ELSE IF data_size < 4 THEN failed("IncorrectDataSize", 0 - 1, pos + 4)
    ELSE IF Len(data) # data_size - 4
    THEN failed("EndOfFileError", 0 - 1, pos + 4 + Len(data))
    ELSE [err |-> NoError, tag |-> tag, data |-> data,
          pos |-> pos + data_size]

\* _read_record without the test of the payload's length
_read_record_short(stream, pos) ==
    LET header == StreamRead(stream, pos, 4)
        data_size == unpack_H(SubSeq(header, 1, 2))
        tag == unpack_H(SubSeq(header, 3, 4))
        data == StreamRead(stream, pos + 4, data_size - 4)
        failed(kind, arg, at) ==
            [err |-> Raised(kind, arg), tag |-> 0 - 1, data |-> <<>>,
             pos |-> at] IN
    IF Len(header) # 4
    THEN failed("EndOfFileError", 0 - 1, pos + Len(header))
    ELSE IF data_size < 4 THEN failed("IncorrectDataSize", 0 - 1, pos + 4)
    ELSE IF data_size % 2 # 0 THEN failed("IncorrectDataSize", 0 - 2, pos + 4)
    ELSE [err |-> NoError, tag |-> tag, data |-> data,
          pos |-> pos + 4 + Len(data)]

\* _read_record(stream) at position pos: [err, tag, data, pos], pos being
\* the position it leaves the stream at
_read_record(stream, pos) ==
    LET header == StreamRead(stream, pos, 4)
        data_size == unpack_H(SubSeq(header, 1, 2))
        tag == unpack_H(SubSeq(header, 3, 4))
        data == StreamRead(stream, pos + 4, data_size - 4)
        failed(kind, arg, at) ==
            [err |-> Raised(kind, arg), tag |-> 0 - 1, data |-> <<>>,
             pos |-> at] IN
    IF Len(header) # 4
    THEN failed("EndOfFileError", 0 - 1, pos + Len(header))
    ELSE IF data_size < 4 THEN failed("IncorrectDataSize", 0 - 1, pos + 4)
    ELSE IF data_size % 2 # 0 THEN failed("IncorrectDataSize", 0 - 2, pos + 4)
    ELSE IF Len(data) # data_size - 4
    THEN failed("EndOfFileError", 0 - 1, pos + 4 + Len(data))
    ELSE [err |-> NoError, tag |-> tag, data |-> data,
          pos |-> pos + data_size]

\* RecordData.read that hands the payload of an unsupported type on as it is
RecordData_read_any(stream, pos) ==
    LET r == _read_record(stream, pos)
        typ == type_of_tag(r.tag)
        failed(e) == [err |-> e, rec |-> NoRecord, pos |-> r.pos] IN
    IF r.err # NoError THEN failed(r.err)
    ELSE IF typ \notin SupportedTypes
    THEN [err |-> NoError, rec |-> RecordData(r.tag, r.data), pos |-> r.pos]
    ELSE IF _PARSE_FUNCS(typ, r.data).err # NoError
    THEN failed(_PARSE_FUNCS(typ, r.data).err)
    ELSE [err |-> NoError,
          rec |-> RecordData(r.tag, _PARSE_FUNCS(typ, r.data).val),
          pos |-> r.pos]

\* RecordData.read(stream) at position pos: [err, rec, pos]
RecordData_read(stream, pos) ==
    LET r == _read_record(stream, pos)
        typ == type_of_tag(r.tag)
        failed(e) == [err |-> e, rec |-> NoRecord, pos |-> r.pos] IN
    IF r.err # NoError THEN failed(r.err)
    ELSE IF typ \notin SupportedTypes
    THEN failed(Raised("UnsupportedTagType", typ))
    ELSE IF _PARSE_FUNCS(typ, r.data).err # NoError
    THEN failed(_PARSE_FUNCS(typ, r.data).err)
    ELSE [err |-> NoError,
          rec |-> RecordData(r.tag, _PARSE_FUNCS(typ, r.data).val),
          pos |-> r.pos]

\* RecordData.save without the test of record_size
RecordData_save_unchecked(rec) ==
    LET tag_type == type_of_tag(Tag(rec))
        packed_data == _PACK_FUNCS(tag_type, Data(rec))
        record_size == Len(packed_data.val) + 4 IN
    IF tag_type \notin SupportedTypes
    THEN Raises("UnsupportedTagType", tag_type)
    ELSE IF packed_data.err # NoError THEN packed_data
    ELSE Join(<<pack_H(record_size), pack_H(Tag(rec)), packed_data>>)

\* RecordData.save(stream): the bytes it writes, header then payload
RecordData_save(rec) ==
    LET tag_type == type_of_tag(Tag(rec))
        packed_data == _PACK_FUNCS(tag_type, Data(rec))
        record_size == Len(packed_data.val) + 4 IN
    IF tag_type \notin SupportedTypes
    THEN Raises("UnsupportedTagType", tag_type)
    ELSE IF packed_data.err # NoError THEN packed_data
    ELSE IF record_size > 65535 THEN Raises("FormatError", record_size)
    ELSE Join(<<pack_H(record_size), pack_H(Tag(rec)), packed_data>>)

\* the largest number of records pulled by one read of a property list, and
\* the largest number of properties of an element in memory
MaxPropertyPulls == 5

MaxProperties == 2

\* the largest number of records of the source of a BufferedGenerator used
\* alone, and the largest number of current reads and next calls made on it
MaxSource == 3

MaxCalls == 4

\* the number of records the finite record sequences read to their end
\* hold beyond their beginning
MaxSequence == 4

(***************************************************************************)
(* Bounds of the model and the values the record source may yield.         *)
(***************************************************************************)
\* the largest number of records pulled from the record source in one read
MaxPulls == 11

\* the same, counted from the record a read inside a structure starts at
MaxElementPulls == 8

\* the largest number of payload bytes of a record of a byte stream, and the
\* largest total_size a record header of one declares
MaxPayload == 4

MaxDeclared == 9

\* the longest byte string of every content, and the longest payload of one
\* repeated byte, that the functions of the record layer are called with
MaxString == 6

MaxBytes == 17

\* how far below and above the largest payload the long strings saved reach
Margin == 3

\* how far the exponents of the doubles converted reach beyond the ones at
\* which the conversion changes
Span == 2

\* the largest number of values of a record whose points are asked for, and
\* of one whose times are
MaxCoordinates == 6

MaxValues == 14

EmptyObject ==
    [a \in {} |-> 0]

\* setattr(obj, name, value)
SetAttr(obj, name, value) ==
    (name :> value) @@ obj

\* hasattr(obj, name)
HasAttr(obj, name) ==
    name \in DOMAIN obj

\* floats by their IEEE-754 fields
Float_0_001 ==
    <<0, 1013, <<0, 6, 2, 4, 13, 13, 2, 15, 1, 10, 9, 15, 12>> >>

Float_1e_9 ==
    <<0, 993, <<1, 2, 14, 0, 11, 14, 8, 2, 6, 13, 6, 9, 5>> >>

Float_2 ==
    <<0, 1024, <<0, 0, 0, 0, 0, 0, 0, 0, 0, 0, 0, 0, 0>> >>

\* 2000-01-01 00:00:00 twice; 2000-02-30 (no such day) twice
GoodTimes ==
    <<100, 1, 1, 0, 0, 0, 100, 1, 1, 0, 0, 0>>

BadDate ==
    <<100, 2, 30, 0, 0, 0, 100, 2, 30, 0, 0, 0>>

\* the payloads the record source yields with each tag: for every tag whose
\* payload the reader inspects, one it accepts and one it rejects
PayloadsOf(tag) ==
    CASE tag = HEADER -> {<<5>>, <<5, 5>>}
      [] tag \in {BGNLIB, BGNSTR} -> {GoodTimes, BadDate, <<100, 1>>}
      [] tag = UNITS -> {<<Float_0_001, Float_1e_9>>, <<Float_0_001>>}
      [] tag \in {MAG, ANGLE} -> {<<Float_2>>, <<Float_2, Float_2>>}
      [] tag \in {LAYER, DATATYPE, TEXTTYPE, NODETYPE, BOXTYPE, PATHTYPE,
                  WIDTH, BGNEXTN, ENDEXTN, PLEX, PROPATTR}
            -> {<<1>>, <<1, 2>>}
      [] tag = COLROW -> {<<2, 3>>, <<2>>}
      [] tag = XY -> {<<0, 0>>, <<0, 0, 4, 0, 4, 4, 0, 0>>, <<0, 0, 4>>}
      [] tag \in {LIBDIRSIZE, GENERATIONS, FORMAT} -> {<<1>>}
      [] tag = LIBSECUR -> {<<1, 2, 3>>}
      [] tag = STRNAME -> {<<65>>, <<66>>}
      [] type_of_tag(tag) = ASCII -> {<<76, 73, 66>>}
      [] type_of_tag(tag) = BITARRAY -> {<<32768>>}
      [] OTHER -> {<<>>}

HeaderTags ==
    {HEADER, BGNLIB, LIBDIRSIZE, SRFNAME, LIBSECUR, LIBNAME, REFLIBS, FONTS,
     ATTRTABLE, GENERATIONS, FORMAT, MASK, ENDMASKS, UNITS}

StructureTags ==
    {BGNSTR, STRNAME, STRCLASS, ENDSTR, ENDLIB}

ElementTags ==
    {BOUNDARY, PATH, SREF, AREF, TEXT, NODE, BOX}

FieldTags ==
    {ELFLAGS, PLEX, LAYER, DATATYPE, PATHTYPE, WIDTH, BGNEXTN, ENDEXTN, XY,
     SNAME, STRANS, MAG, ANGLE, COLROW, TEXTTYPE, PRESENTATION, STRINGTAG,
     NODETYPE, BOXTYPE, PROPATTR, PROPVALUE, ENDEL, TEXTNODE}

AllTags ==
    HeaderTags \cup StructureTags \cup ElementTags \cup FieldTags

\* the records the record source may yield
Records ==
    UNION {{RecordData(t, d) : d \in PayloadsOf(t)} : t \in AllTags}

\* what RecordData.read raises (the record source is all_records)
SourceErrors ==
    {Raised("EndOfFileError", 0 - 1), Raised("IncorrectDataSize", 0 - 1),
     Raised("UnsupportedTagType", REAL4)}


(***************************************************************************)
(* gdsii/elements.py: the field descriptors <<class, variable, tag>> and   *)
(* each element class's _gds_objs.  OptionalFlagsRecord is the name        *)
(* elements.py imports for the class _records.py defines as                *)
(* OptionalWholeRecord.                                                    *)
(***************************************************************************)
elflags == <<"OptionalWholeRecord", "_elflags", ELFLAGS>>
plex == <<"SimpleOptionalRecord", "_plex", PLEX>>
layer == <<"SimpleRecord", "_layer", LAYER>>
data_type == <<"SimpleRecord", "_data_type", DATATYPE>>
path_type == <<"SimpleOptionalRecord", "_path_type", PATHTYPE>>
width == <<"SimpleOptionalRecord", "_width", WIDTH>>
bgn_extn == <<"SimpleOptionalRecord", "_bgn_extn", BGNEXTN>>
end_extn == <<"SimpleOptionalRecord", "_end_extn", ENDEXTN>>
xy == <<"XYRecord", "_xy", XY>>
struct_name == <<"StringRecord", "_struct_name", SNAME>>
strans == <<"STransRecord", "_strans", STRANS>>
mag == <<"SimpleOptionalRecord", "_mag", MAG>>
angle == <<"SimpleOptionalRecord", "_angle", ANGLE>>
colrow == <<"ColRowRecord", "_cols", COLROW>>
text_type == <<"SimpleRecord", "_text_type", TEXTTYPE>>
presentation == <<"OptionalWholeRecord", "_presentation", PRESENTATION>>
string == <<"StringRecord", "_string", STRINGTAG>>
node_type == <<"SimpleRecord", "_node_type", NODETYPE>>
box_type == <<"SimpleRecord", "_box_type", BOXTYPE>>
properties == <<"PropertiesRecord", "_properties", 0 - 1>>

NoObj ==
    <<"", "", 0 - 1>>

\* _gds_objs of the class whose _gds_tag is tag
_gds_objs(tag) ==
    CASE tag = BOUNDARY -> <<elflags, plex, layer, data_type, xy, properties>>
      [] tag = PATH -> <<elflags, plex, layer, data_type, path_type, width,
                         bgn_extn, end_extn, xy, properties>>
      [] tag = SREF -> <<elflags, plex, struct_name, strans, xy, properties>>
      [] tag = AREF -> <<elflags, plex, struct_name, strans, colrow, xy,
                         properties>>
      [] tag = TEXT -> <<elflags, plex, layer, text_type, presentation,
                         path_type, width, strans, xy, string, properties>>
      [] tag = NODE -> <<elflags, plex, layer, node_type, xy>>
      [] tag = BOX -> <<elflags, plex, layer, box_type, xy, properties>>

\* the keys of ElementBase._tag_to_class_map
_tag_to_class_map ==
    {BOUNDARY, PATH, SREF, AREF, TEXT, NODE, BOX}

(***************************************************************************)
(* State.  The reader runs from one next(recs) to the following one; pc    *)
(* names the statement it resumes at once the generator has yielded.       *)
(***************************************************************************)
VARIABLES
    pc,       \* the statement the reader resumes at
    cur,      \* BufferedGenerator._current
    pulled,   \* the records the generator has yielded to the read in progress
    err,      \* the exception raised, NoError while none is
    at,       \* the statement that raised it
    lib,      \* the Library being read (its attributes)
    strc,     \* the Structure being read
    elem,     \* the element being read
    fld,      \* the index in _gds_objs of the field being read
    obj,      \* the descriptor whose read is running
    rec,      \* SimpleOptionalRecord.read: the local rec
    props,    \* PropertiesRecord.read: the local props
    propattr, \* PropertiesRecord.read: the local propattr
    out,      \* the records Library.save has written
    limit,    \* the number of records the record source yields at most
    orig,     \* the Library in memory that is saved and read back
    stream,   \* the bytes of the GDSII stream
    spos,     \* the stream's position: the number of bytes read from it
    arg,      \* the arguments of a call of one function of the record layer
    res       \* what the call returned, or the exception it raised

vars ==
    <<pc, cur, pulled, err, at, lib, strc, elem, fld, obj, rec, props,
      propattr, out, limit, orig, stream, spos, arg, res>>

\* the reader's frame as one value; pull: it is inside next(recs)
Reader ==
    [pc |-> pc, pull |-> TRUE, cur |-> cur, err |-> err, at |-> at,
     lib |-> lib, strc |-> strc, elem |-> elem, fld |-> fld, obj |-> obj,
     rec |-> rec, props |-> props, propattr |-> propattr]

SetReader(s) ==
    /\ pc' = s.pc
    /\ cur' = s.cur
    /\ err' = s.err
    /\ at' = s.at
    /\ lib' = s.lib
    /\ strc' = s.strc
    /\ elem' = s.elem
    /\ fld' = s.fld
    /\ obj' = s.obj
    /\ rec' = s.rec
    /\ props' = s.props
    /\ propattr' = s.propattr

\* an exception that is swallowed where it is raised: the statement is tried
\* again with the next record
Raise_retry(s, e) ==
    [s EXCEPT !.pull = TRUE]


\* an exception is raised at the statement s stands at: the statement does
\* not complete, the objects are as they were, the record that was current
\* stays in cur
Raise(s, e) ==
    [s EXCEPT !.err = e, !.at = s.pc, !.pc = "raised", !.pull = FALSE]

\* an exception that leaves Library.__init__ with the objects built so far
\* handed to the caller
Unwind_partial(s) ==
    s


\* an exception leaves Library.__init__: the objects under construction are
\* dropped with its frame
Unwind(s) ==
    IF s.pc # "raised" THEN s
    ELSE [s EXCEPT !.lib = EmptyObject, !.strc = EmptyObject,
                   !.elem = EmptyObject, !.fld = 0, !.obj = NoObj,
                   !.rec = NoRecord, !.props = <<>>, !.propattr = 0]

\* go on with the statement at label
Goto(s, label) ==
    [s EXCEPT !.pc = label]

\* next(recs), then the statement at label
NextThen(s, label) ==
    [s EXCEPT !.pc = label, !.pull = TRUE]

(***************************************************************************)
(* _ignore_record(recs, lastrec, tag) and its call sites: <<the site, the  *)
(* tag ignored there, the statement that follows>>.                        *)
(***************************************************************************)
IgnoreSites ==
    { <<"ign_LIBDIRSIZE", LIBDIRSIZE, "ign_SRFNAME">>,
      <<"ign_SRFNAME", SRFNAME, "ign_LIBSECUR">>,
      <<"ign_LIBSECUR", LIBSECUR, "LIBNAME">>,
      <<"ign_REFLIBS", REFLIBS, "ign_FONTS">>,
      <<"ign_FONTS", FONTS, "ign_ATTRTABLE">>,
      <<"ign_ATTRTABLE", ATTRTABLE, "ign_GENERATIONS">>,
      <<"ign_GENERATIONS", GENERATIONS, "FORMAT">>,
      <<"ign_STRCLASS", STRCLASS, "ELEMENTS">> }

\* _ignore_record that keeps the data of the record it passes over in the
\* Library
_ignore_record_keeps(s) ==
    LET site == CHOOSE x \in IgnoreSites : x[1] = s.pc IN
    IF Tag(s.cur) # site[2] THEN Goto(s, site[3])
    ELSE NextThen([s EXCEPT !.lib = SetAttr(s.lib, "_ignored", Data(s.cur))],
                  site[3])


\* _ignore_record without its test of the tag: it always returns next(recs)
_ignore_record_any(s) ==
    LET site == CHOOSE x \in IgnoreSites : x[1] = s.pc IN
    NextThen(s, site[3])

\* returns lastrec unless it has the tag, and then next(recs)
_ignore_record(s) ==
    LET site == CHOOSE x \in IgnoreSites : x[1] = s.pc IN
    IF Tag(s.cur) # site[2] THEN Goto(s, site[3]) ELSE NextThen(s, site[3])

(***************************************************************************)
(* Library.__init__(unbuf_recs), after recs = BufferedGenerator(...),      *)
(* self._structures = [] and the first next(recs).                         *)
(***************************************************************************)
\* HEADER: check_tag, check_size(1), _version; then next(recs)
Library_HEADER(s) ==
    LET e == FirstError(<<check_tag(s.cur, HEADER), check_size(s.cur, 1)>>) IN
    IF e # NoError THEN Raise(s, e)
    ELSE NextThen([s EXCEPT !.lib = SetAttr(s.lib, "_version", Data(s.cur)[1])],
                  "BGNLIB")

\* BGNLIB: check_tag, _mod_time, _acc_time = rec.times; then the next(recs)
\* that is the argument of the first _ignore_record
Library_BGNLIB(s) ==
    LET e == FirstError(<<check_tag(s.cur, BGNLIB), times_error(s.cur)>>) IN
    IF e # NoError THEN Raise(s, e)
    ELSE NextThen([s EXCEPT !.lib = SetAttr(SetAttr(s.lib,
                                "_mod_time", times(s.cur)[1]),
                                "_acc_time", times(s.cur)[2])],
                  "ign_LIBDIRSIZE")

\* LIBNAME: check_tag, _name = rec.data; then next(recs)
Library_LIBNAME(s) ==
    LET e == check_tag(s.cur, LIBNAME) IN
    IF e # NoError THEN Raise(s, e)
    ELSE NextThen([s EXCEPT !.lib = SetAttr(s.lib, "_name", Data(s.cur))],
                  "ign_REFLIBS")

\* if rec.tag == tags.FORMAT: rec = next(recs)
Library_FORMAT(s) ==
    IF Tag(s.cur) = FORMAT THEN NextThen(s, "MASK") ELSE Goto(s, "UNITS")

\* if rec.tag == tags.MASK: while True: rec = next(recs)
Library_MASK(s) ==
    IF Tag(s.cur) = MASK THEN NextThen(s, "MASKS") ELSE Goto(s, "UNITS")

\* in the loop: at ENDMASKS rec = next(recs) and break; otherwise
\* rec.check_tag(tags.MASK) and the loop's next(recs)
Library_MASKS(s) ==
    IF Tag(s.cur) = ENDMASKS THEN NextThen(s, "UNITS")
    ELSE IF check_tag(s.cur, MASK) # NoError
    THEN Raise(s, check_tag(s.cur, MASK))
    ELSE NextThen(s, "MASKS")

\* UNITS: check_tag, check_size(2), the two units; then the structure loop
Library_UNITS(s) ==
    LET e == FirstError(<<check_tag(s.cur, UNITS), check_size(s.cur, 2)>>) IN
    IF e # NoError THEN Raise(s, e)
    ELSE NextThen([s EXCEPT !.lib = SetAttr(SetAttr(s.lib,
                                "_logical_unit", Data(s.cur)[1]),
                                "_physical_unit", Data(s.cur)[2])],
                  "STRUCTS")

\* the structure loop that goes on after ENDLIB
Library_structures_on(s) ==
    IF Tag(s.cur) = BGNSTR THEN Goto(s, "BGNSTR")
    ELSE IF Tag(s.cur) = ENDLIB THEN NextThen(s, "STRUCTS")
    ELSE Raise(s, Raised("FormatError", 0 - 1))


\* the structure loop with a break on every tag but BGNSTR
Library_structures_break(s) ==
    IF Tag(s.cur) = BGNSTR THEN Goto(s, "BGNSTR") ELSE Goto(s, "loaded")

\* the structure loop after rec = next(recs): BGNSTR enters Structure(recs),
\* ENDLIB breaks, any other tag raises FormatError
Library_structures(s) ==
    IF Tag(s.cur) = BGNSTR THEN Goto(s, "BGNSTR")
    ELSE IF Tag(s.cur) = ENDLIB THEN Goto(s, "loaded")
    ELSE Raise(s, Raised("FormatError", 0 - 1))

\* self._structures.append(Structure(recs)) once the structure has
\* returned; then the loop's next(recs)
Library_append(s) ==
    NextThen([s EXCEPT !.lib = SetAttr(s.lib, "_structures",
                                       Append(s.lib["_structures"], s.strc)),
                       !.strc = EmptyObject],
             "STRUCTS")

(***************************************************************************)
(* Structure.__init__(recs)                                                *)
(***************************************************************************)
\* _elements = []; _mod_time, _acc_time = recs.current.times; next(recs)
Structure_BGNSTR(s) ==
    LET e == times_error(s.cur) IN
    IF e # NoError THEN Raise(s, e)
    ELSE NextThen([s EXCEPT !.strc = SetAttr(SetAttr(SetAttr(EmptyObject,
                                "_elements", <<>>),
                                "_mod_time", times(s.cur)[1]),
                                "_acc_time", times(s.cur)[2])],
                  "STRNAME")

\* Structure.__init__ without rec.check_tag(tags.STRNAME)
Structure_STRNAME_unchecked(s) ==
    NextThen([s EXCEPT !.strc = SetAttr(s.strc, "_name", Data(s.cur))],
             "ign_STRCLASS")

\* STRNAME: check_tag, _name = rec.data; then the next(recs) that is the
\* argument of _ignore_record
Structure_STRNAME(s) ==
    LET e == check_tag(s.cur, STRNAME) IN
    IF e # NoError THEN Raise(s, e)
    ELSE NextThen([s EXCEPT !.strc = SetAttr(s.strc, "_name", Data(s.cur))],
                  "ign_STRCLASS")

\* while recs.current.tag != tags.ENDSTR: ElementBase.load(recs); at ENDSTR
\* the structure returns
Structure_elements(s) ==
    IF Tag(s.cur) = ENDSTR THEN Goto(s, "append_structure")
    ELSE Goto(s, "load")

\* self._elements.append(ElementBase.load(recs)) once load has returned
Structure_append(s) ==
    Goto([s EXCEPT !.strc = SetAttr(s.strc, "_elements",
                                    Append(s.strc["_elements"], s.elem)),
                   !.elem = EmptyObject, !.fld = 0, !.obj = NoObj],
         "ELEMENTS")

(***************************************************************************)
(* ElementBase.load and ElementBase._read_element                          *)
(***************************************************************************)
\* element_class = cls._tag_to_class_map[recs.current.tag]: a tag that is
\* no key raises KeyError.  Then _read_element: cls.__new__, next(recs)
ElementBase_load(s) ==
    IF Tag(s.cur) \notin _tag_to_class_map
    THEN Raise(s, Raised("KeyError", Tag(s.cur)))
    ELSE NextThen([s EXCEPT !.elem = SetAttr(EmptyObject, "_gds_tag",
                                             Tag(s.cur)),
                            !.fld = 1],
                  "FIELD")

\* _read_element without recs.current.check_tag(tags.ENDEL)
ElementBase__read_element_unchecked(s) ==
    IF s.fld <= Len(_gds_objs(s.elem["_gds_tag"]))
    THEN Goto([s EXCEPT !.obj = _gds_objs(s.elem["_gds_tag"])[s.fld]], "read")
    ELSE NextThen(s, "append_element")

\* for obj in self._gds_objs: obj.read(self, recs); after the last one
\* recs.current.check_tag(tags.ENDEL), next(recs), return self
ElementBase__read_element(s) ==
    IF s.fld <= Len(_gds_objs(s.elem["_gds_tag"]))
    THEN Goto([s EXCEPT !.obj = _gds_objs(s.elem["_gds_tag"])[s.fld]], "read")
    ELSE IF check_tag(s.cur, ENDEL) # NoError
    THEN Raise(s, check_tag(s.cur, ENDEL))
    ELSE NextThen(s, "append_element")

(***************************************************************************)
(* gdsii/_records.py: the descriptors' read methods                        *)
(***************************************************************************)
\* the descriptor's read returns: to STransRecord.optional_read, which reads
\* angle after mag, or to the loop of _read_element
Return(s) ==
    IF s.obj = mag THEN Goto([s EXCEPT !.obj = angle], "read")
    ELSE Goto([s EXCEPT !.fld = s.fld + 1, !.obj = NoObj], "FIELD")

\* SimpleRecord.read that sets the attribute to 0 before it raises
SimpleRecord_read_clobber(s) ==
    LET e == FirstError(<<check_tag(s.cur, s.obj[3]), check_size(s.cur, 1)>>) IN
    IF e # NoError THEN Raise([s EXCEPT !.elem = SetAttr(s.elem, s.obj[2], 0)], e)
    ELSE NextThen([s EXCEPT !.elem = SetAttr(s.elem, s.obj[2], Data(s.cur)[1])],
                  "return")


\* SimpleRecord.read: check_tag, check_size(1), setattr(data[0]), next(gen)
SimpleRecord_read(s) ==
    LET e == FirstError(<<check_tag(s.cur, s.obj[3]), check_size(s.cur, 1)>>) IN
    IF e # NoError THEN Raise(s, e)
    ELSE NextThen([s EXCEPT !.elem = SetAttr(s.elem, s.obj[2], Data(s.cur)[1])],
                  "return")

\* SimpleOptionalRecord.read that takes the current record whatever its tag
SimpleOptionalRecord_read_always(s) ==
    NextThen([s EXCEPT !.rec = s.cur], "optional_read")


\* SimpleOptionalRecord.read: rec = gen.current; when its tag is the
\* descriptor's, next(gen) and then self.optional_read(instance, gen, rec)
SimpleOptionalRecord_read(s) ==
    IF Tag(s.cur) = s.obj[3]
    THEN NextThen([s EXCEPT !.rec = s.cur], "optional_read")
    ELSE Goto(s, "return")

\* SimpleOptionalRecord.optional_read: check_size(1), setattr(data[0])
SimpleOptionalRecord_optional_read(s) ==
    IF check_size(s.rec, 1) # NoError THEN Raise(s, check_size(s.rec, 1))
    ELSE Goto([s EXCEPT !.elem = SetAttr(s.elem, s.obj[2], Data(s.rec)[1]),
                        !.rec = NoRecord],
              "return")

\* OptionalWholeRecord.optional_read: setattr(rec.data)
OptionalWholeRecord_optional_read(s) ==
    Goto([s EXCEPT !.elem = SetAttr(s.elem, s.obj[2], Data(s.rec)),
                   !.rec = NoRecord],
         "return")

\* STransRecord.optional_read: setattr(rec.data), self.mag.read,
\* self.angle.read
STransRecord_optional_read(s) ==
    Goto([s EXCEPT !.elem = SetAttr(s.elem, s.obj[2], Data(s.rec)),
                   !.rec = NoRecord, !.obj = mag],
         "read")

\* XYRecord.read: check_tag, setattr(rec.points), next(gen)
XYRecord_read(s) ==
    LET e == FirstError(<<check_tag(s.cur, s.obj[3]), points_error(s.cur)>>) IN
    IF e # NoError THEN Raise(s, e)
    ELSE NextThen([s EXCEPT !.elem = SetAttr(s.elem, s.obj[2], points(s.cur))],
                  "return")

\* StringRecord.read: check_tag, setattr(rec.data), next(gen)
StringRecord_read(s) ==
    LET e == check_tag(s.cur, s.obj[3]) IN
    IF e # NoError THEN Raise(s, e)
    ELSE NextThen([s EXCEPT !.elem = SetAttr(s.elem, s.obj[2], Data(s.cur))],
                  "return")

\* ColRowRecord.read: check_tag(COLROW), check_size(2), cols, rows, next(gen)
ColRowRecord_read(s) ==
    LET e == FirstError(<<check_tag(s.cur, COLROW), check_size(s.cur, 2)>>) IN
    IF e # NoError THEN Raise(s, e)
    ELSE NextThen([s EXCEPT !.elem = SetAttr(SetAttr(s.elem,
                                 "_cols", Data(s.cur)[1]),
                                 "_rows", Data(s.cur)[2])],
                  "return")

\* PropertiesRecord.read: rec = gen.current; props = []
PropertiesRecord_read(s) ==
    Goto([s EXCEPT !.props = <<>>], "PROPATTR")

\* while rec.tag == tags.PROPATTR: check_size(1), propattr = rec.data[0],
\* rec = next(gen); after the loop setattr(props)
PropertiesRecord_PROPATTR(s) ==
    IF Tag(s.cur) # PROPATTR
    THEN Goto([s EXCEPT !.elem = SetAttr(s.elem, s.obj[2], s.props),
                        !.props = <<>>],
              "return")
    ELSE IF check_size(s.cur, 1) # NoError
    THEN Raise(s, check_size(s.cur, 1))
    ELSE NextThen([s EXCEPT !.propattr = Data(s.cur)[1]], "PROPVALUE")

\* PropertiesRecord.read that keeps one value for each propattr, as a dict
\* would
PropertiesRecord_PROPVALUE_dict(s) ==
    LET e == check_tag(s.cur, PROPVALUE)
        others == SelectSeq(s.props, LAMBDA p : p[1] # s.propattr) IN
    IF e # NoError THEN Raise(s, e)
    ELSE NextThen([s EXCEPT !.props = Append(others,
                                             <<s.propattr, Data(s.cur)>>),
                            !.propattr = 0],
                  "PROPATTR")


\* rec.check_tag(tags.PROPVALUE), props.append((propattr, rec.data)),
\* rec = next(gen)
PropertiesRecord_PROPVALUE(s) ==
    LET e == check_tag(s.cur, PROPVALUE) IN
    IF e # NoError THEN Raise(s, e)
    ELSE NextThen([s EXCEPT !.props = Append(s.props,
                                             <<s.propattr, Data(s.cur)>>),
                            !.propattr = 0],
                  "PROPATTR")

\* obj.read(self, recs): the read method of the descriptor's class
Read(s) ==
    CASE s.obj[1] = "SimpleRecord" -> SimpleRecord_read(s)
      [] s.obj[1] \in {"SimpleOptionalRecord", "OptionalWholeRecord",
                       "STransRecord"} -> SimpleOptionalRecord_read(s)
      [] s.obj[1] = "XYRecord" -> XYRecord_read(s)
      [] s.obj[1] = "StringRecord" -> StringRecord_read(s)
      [] s.obj[1] = "ColRowRecord" -> ColRowRecord_read(s)
      [] s.obj[1] = "PropertiesRecord" -> PropertiesRecord_read(s)

\* self.optional_read(instance, gen, rec): the descriptor's class's
OptionalRead(s) ==
    CASE s.obj[1] = "SimpleOptionalRecord" ->
             SimpleOptionalRecord_optional_read(s)
      [] s.obj[1] = "OptionalWholeRecord" ->
             OptionalWholeRecord_optional_read(s)
      [] s.obj[1] = "STransRecord" -> STransRecord_optional_read(s)

(***************************************************************************)
(* The reader between two next(recs).                                      *)
(***************************************************************************)
\* the statement at s.pc
Statement(s) ==
    CASE s.pc = "HEADER" -> Library_HEADER(s)
      [] s.pc = "BGNLIB" -> Library_BGNLIB(s)
      [] s.pc = "LIBNAME" -> Library_LIBNAME(s)
      [] s.pc = "FORMAT" -> Library_FORMAT(s)
      [] s.pc = "MASK" -> Library_MASK(s)
      [] s.pc = "MASKS" -> Library_MASKS(s)
      [] s.pc = "UNITS" -> Library_UNITS(s)
      [] s.pc = "STRUCTS" -> Library_structures(s)
      [] s.pc = "append_structure" -> Library_append(s)
      [] s.pc = "BGNSTR" -> Structure_BGNSTR(s)
      [] s.pc = "STRNAME" -> Structure_STRNAME(s)
      [] s.pc = "ELEMENTS" -> Structure_elements(s)
      [] s.pc = "append_element" -> Structure_append(s)
      [] s.pc = "load" -> ElementBase_load(s)
      [] s.pc = "FIELD" -> ElementBase__read_element(s)
      [] s.pc = "read" -> Read(s)
      [] s.pc = "optional_read" -> OptionalRead(s)
      [] s.pc = "return" -> Return(s)
      [] s.pc = "PROPATTR" -> PropertiesRecord_PROPATTR(s)
      [] s.pc = "PROPVALUE" -> PropertiesRecord_PROPVALUE(s)
      [] OTHER -> _ignore_record(s)

Stopped(s) ==
    s.pc \in {"raised", "loaded"}

\* the statements from s up to the next next(recs), or to the end
RECURSIVE Run(_)
Run(s) ==
    IF s.pull \/ Stopped(s) THEN s
    ELSE CHOOSE r \in {Run(t) : t \in {Statement(s)}} : TRUE

(***************************************************************************)
(* Saving: every RecordData(...).save(stream) appends one record to the    *)
(* stream.                                                                 *)
(***************************************************************************)
\* RecordData(tag, times=(mod_time, acc_time)): the twelve INT2 values
times_data(mod_time, acc_time) ==
    <<mod_time[1] - 1900, mod_time[2], mod_time[3], mod_time[4], mod_time[5],
      mod_time[6],
      acc_time[1] - 1900, acc_time[2], acc_time[3], acc_time[4], acc_time[5],
      acc_time[6]>>

\* RecordData(tag, points=pts): the coordinates, x then y, point by point
points_data(pts) ==
    [i \in 1..(2 * Len(pts)) |-> pts[(i + 1) \div 2][2 - (i % 2)]]

\* SimpleRecord.save
SimpleRecord_save(o, instance) ==
    <<RecordData(o[3], <<instance[o[2]]>>)>>

\* SimpleOptionalRecord.save: nothing when the attribute is None or unset
SimpleOptionalRecord_save(o, instance) ==
    IF HasAttr(instance, o[2])
    THEN <<RecordData(o[3], <<instance[o[2]]>>)>> ELSE <<>>

\* OptionalWholeRecord.save
OptionalWholeRecord_save(o, instance) ==
    IF HasAttr(instance, o[2])
    THEN <<RecordData(o[3], instance[o[2]])>> ELSE <<>>

\* STransRecord.save that saves mag and angle whether _strans is set or not
STransRecord_save_always(o, instance) ==
    OptionalWholeRecord_save(o, instance)
    \o SimpleOptionalRecord_save(mag, instance)
    \o SimpleOptionalRecord_save(angle, instance)


\* STransRecord.save: STRANS, then mag and angle, only when _strans is set
STransRecord_save(o, instance) ==
    IF HasAttr(instance, o[2])
    THEN OptionalWholeRecord_save(o, instance)
         \o SimpleOptionalRecord_save(mag, instance)
         \o SimpleOptionalRecord_save(angle, instance)
    ELSE <<>>

\* XYRecord.save
XYRecord_save(o, instance) ==
    <<RecordData(o[3], points_data(instance[o[2]]))>>

\* StringRecord.save
StringRecord_save(o, instance) ==
    <<RecordData(o[3], instance[o[2]])>>

\* ColRowRecord.save
ColRowRecord_save(o, instance) ==
    <<RecordData(COLROW, <<instance["_cols"], instance["_rows"]>>)>>

\* PropertiesRecord.save: PROPATTR, PROPVALUE for each property in order
PropertiesRecord_save(o, instance) ==
    Concat([i \in 1..Len(instance[o[2]]) |->
               <<RecordData(PROPATTR, <<instance[o[2]][i][1]>>),
                 RecordData(PROPVALUE, instance[o[2]][i][2])>>])

\* obj.save(self, stream): the save method of the descriptor's class
Save(o, instance) ==
    CASE o[1] = "SimpleRecord" -> SimpleRecord_save(o, instance)
      [] o[1] = "SimpleOptionalRecord" -> SimpleOptionalRecord_save(o, instance)
      [] o[1] = "OptionalWholeRecord" -> OptionalWholeRecord_save(o, instance)
      [] o[1] = "STransRecord" -> STransRecord_save(o, instance)
      [] o[1] = "XYRecord" -> XYRecord_save(o, instance)
      [] o[1] = "StringRecord" -> StringRecord_save(o, instance)
      [] o[1] = "ColRowRecord" -> ColRowRecord_save(o, instance)
      [] o[1] = "PropertiesRecord" -> PropertiesRecord_save(o, instance)

\* ElementBase.save: the element's tag, its fields in _gds_objs order, ENDEL
ElementBase_save(e) ==
    <<RecordData(e["_gds_tag"], <<>>)>>
    \o Concat([i \in 1..Len(_gds_objs(e["_gds_tag"])) |->
                  Save(_gds_objs(e["_gds_tag"])[i], e)])
    \o <<RecordData(ENDEL, <<>>)>>

\* Structure.save: BGNSTR, STRNAME, the elements in order, ENDSTR
Structure_save(st) ==
    <<RecordData(BGNSTR, times_data(st["_mod_time"], st["_acc_time"])),
      RecordData(STRNAME, st["_name"])>>
    \o Concat([i \in 1..Len(st["_elements"]) |->
                  ElementBase_save(st["_elements"][i])])
    \o <<RecordData(ENDSTR, <<>>)>>

\* Library.save that writes UNITS before LIBNAME
Library_save_units_first(l) ==
    <<RecordData(HEADER, <<l["_version"]>>),
      RecordData(BGNLIB, times_data(l["_mod_time"], l["_acc_time"])),
      RecordData(UNITS, <<l["_logical_unit"], l["_physical_unit"]>>),
      RecordData(LIBNAME, l["_name"])>>
    \o Concat([i \in 1..Len(l["_structures"]) |->
                  Structure_save(l["_structures"][i])])
    \o <<RecordData(ENDLIB, <<>>)>>


\* Library.save: HEADER, BGNLIB, LIBNAME, UNITS, the structures in order,
\* ENDLIB
Library_save(l) ==
    <<RecordData(HEADER, <<l["_version"]>>),
      RecordData(BGNLIB, times_data(l["_mod_time"], l["_acc_time"])),
      RecordData(LIBNAME, l["_name"]),
      RecordData(UNITS, <<l["_logical_unit"], l["_physical_unit"]>>)>>
    \o Concat([i \in 1..Len(l["_structures"]) |->
                  Structure_save(l["_structures"][i])])
    \o <<RecordData(ENDLIB, <<>>)>>

(***************************************************************************)
(* The specifications.                                                     *)
(***************************************************************************)
\* Library.__init__ inside its first next(recs)
Reader0 ==
    [pc |-> "HEADER", pull |-> TRUE, cur |-> NoRecord, err |-> NoError,
     at |-> "", lib |-> SetAttr(EmptyObject, "_structures", <<>>),
     strc |-> EmptyObject, elem |-> EmptyObject, fld |-> 0, obj |-> NoObj,
     rec |-> NoRecord, props |-> <<>>, propattr |-> 0]

\* the reader s after the record source has yielded recs, one after another
RECURSIVE Feed(_, _)
Feed(s, recs) ==
    IF recs = <<>> THEN s
    ELSE Feed(Run([s EXCEPT !.cur = Head(recs), !.pull = FALSE]), Tail(recs))

\* a stream up to the name of its first structure
Prefix ==
    <<RecordData(HEADER, <<5>>), RecordData(BGNLIB, GoodTimes),
      RecordData(LIBNAME, <<76, 73, 66>>),
      RecordData(UNITS, <<Float_0_001, Float_1e_9>>),
      RecordData(BGNSTR, GoodTimes), RecordData(STRNAME, <<65>>)>>

\* the records of one Node element
NodeElement ==
    <<RecordData(NODE, <<>>), RecordData(LAYER, <<1>>),
      RecordData(NODETYPE, <<1>>), RecordData(XY, <<0, 0>>),
      RecordData(ENDEL, <<>>)>>

\* the reader in state s, the source having yielded p and l its bound
Start(s, p, l) ==
    /\ pc = s.pc
    /\ cur = s.cur
    /\ pulled = p
    /\ err = s.err
    /\ at = s.at
    /\ lib = s.lib
    /\ strc = s.strc
    /\ elem = s.elem
    /\ fld = s.fld
    /\ obj = s.obj
    /\ rec = s.rec
    /\ props = s.props
    /\ propattr = s.propattr
    /\ out = <<>>
    /\ limit = l
    /\ orig = EmptyObject
    /\ stream = <<>>
    /\ spos = 0
    /\ arg = <<>>
    /\ res = <<>>

Init ==
    Start(Reader0, <<>>, MaxPulls)

\* the read has come to the first structure's elements, or past the first
\* of them
InitElements ==
    \E p \in {Prefix, Prefix \o NodeElement} :
        Start(Feed(Reader0, p), p, Len(p) + MaxElementPulls)

\* BufferedGenerator.next: self._current = next(self._generator); the
\* generator yields a record and the reader runs on to its next next(recs)
BufferedGenerator_next ==
    /\ ~ Stopped(Reader)
    /\ pc # "saved"
    /\ Len(pulled) < limit
    /\ \E r \in Records :
           \E s \in {Unwind(Run([Reader EXCEPT !.cur = r,
                                                   !.pull = FALSE]))} :
               /\ SetReader(s)
               /\ pulled' = (IF s.pc = "raised" THEN <<>>
                             ELSE Append(pulled, r))
    /\ UNCHANGED <<out, limit, orig, stream, spos,
                   arg, res>>

\* BufferedGenerator.next: the generator raises; _current is not assigned
\* and the exception leaves the reader
BufferedGenerator_next_raises ==
    /\ ~ Stopped(Reader)
    /\ pc # "saved"
    /\ limit > 0
    /\ \E e \in SourceErrors :
           SetReader(Unwind(Raise([Reader EXCEPT !.pc = "next"], e)))
    /\ pulled' = <<>>
    /\ UNCHANGED <<out, limit, orig, stream, spos,
                   arg, res>>

\* lib.save(stream) on the library that was read
Library_save_stream ==
    /\ pc = "loaded"
    /\ out' = Library_save(lib)
    /\ pc' = "saved"
    /\ UNCHANGED <<cur, pulled, err, at, lib, strc, elem, fld, obj, rec,
                   props, propattr, limit, orig, stream, spos,
                   arg, res>>

Next ==
    \/ BufferedGenerator_next
    \/ BufferedGenerator_next_raises
    \/ Library_save_stream

Spec ==
    Init /\ [][Next]_vars

SpecElements ==
    InitElements /\ [][Next]_vars

(***************************************************************************)
(* Saving a Library held in memory and reading the written records back.   *)
(***************************************************************************)
\* which optional attributes of an element are set, and whether its
\* property list has members
Options ==
    [plex : BOOLEAN, strans : BOOLEAN, mag : BOOLEAN, angle : BOOLEAN,
     props : BOOLEAN]

\* the element e with the attributes of descriptor o set as opt says
WithField(e, o, opt) ==
    CASE o = plex -> IF opt.plex THEN SetAttr(e, "_plex", 7) ELSE e
      [] o = strans ->
             LET e1 == IF opt.strans THEN SetAttr(e, "_strans", <<32768>>)
                       ELSE e
                 e2 == IF opt.mag THEN SetAttr(e1, "_mag", Float_2) ELSE e1 IN
             IF opt.angle THEN SetAttr(e2, "_angle", Float_2) ELSE e2
      [] o = xy -> SetAttr(e, "_xy", <<<<0, 0>>, <<4, 4>>>>)
      [] o = properties ->
             SetAttr(e, "_properties",
                     IF opt.props THEN <<<<1, <<80>>>>, <<1, <<81>>>>>>
                     ELSE <<>>)
      [] o = colrow -> SetAttr(SetAttr(e, "_cols", 2), "_rows", 3)
      [] o[1] = "SimpleRecord" -> SetAttr(e, o[2], 1)
      [] o[1] = "StringRecord" -> SetAttr(e, o[2], <<83>>)
      [] OTHER -> e

\* an element of the class of tag with its first i descriptors' attributes
RECURSIVE Element(_, _, _)
Element(tag, i, opt) ==
    IF i = 0 THEN SetAttr(EmptyObject, "_gds_tag", tag)
    ELSE WithField(Element(tag, i - 1, opt), _gds_objs(tag)[i], opt)

\* the elements a Library in memory may hold
Elements ==
    {Element(tag, Len(_gds_objs(tag)), opt) :
        tag \in _tag_to_class_map, opt \in Options}

\* a Node with every optional attribute unset
NodeOf ==
    Element(NODE, Len(_gds_objs(NODE)),
            [plex |-> FALSE, strans |-> FALSE, mag |-> FALSE,
             angle |-> FALSE, props |-> FALSE])

\* a Structure of the given name and elements
StructureOf(name, elements) ==
    [_mod_time |-> <<2001, 2, 3, 4, 5, 6>>,
     _acc_time |-> <<2002, 3, 4, 5, 6, 7>>,
     _name |-> name, _elements |-> elements]

\* a Library of the given structures
LibraryOf(structures) ==
    [_version |-> 5, _mod_time |-> <<2000, 1, 1, 0, 0, 0>>,
     _acc_time |-> <<2010, 8, 14, 21, 10, 35>>, _name |-> <<76, 73, 66>>,
     _logical_unit |-> Float_0_001, _physical_unit |-> Float_1e_9,
     _structures |-> structures]

\* Boundary elements of three and of four points, the first not repeated
Boundaries ==
    {[Element(BOUNDARY, Len(_gds_objs(BOUNDARY)),
              [plex |-> FALSE, strans |-> FALSE, mag |-> FALSE,
               angle |-> FALSE, props |-> FALSE])
         EXCEPT !["_xy"] = pts] :
        pts \in {<<<<0, 0>>, <<4, 0>>, <<4, 4>>>>,
                 <<<<0, 0>>, <<4, 0>>, <<4, 4>>, <<0, 4>>>>}}

\* the element e with the optional attributes of its first i descriptors set
RECURSIVE WithOptional(_, _)
WithOptional(e, i) ==
    IF i = 0 THEN e
    ELSE LET o == _gds_objs(e["_gds_tag"])[i]
             rest == WithOptional(e, i - 1) IN
         CASE o[1] = "OptionalWholeRecord" -> SetAttr(rest, o[2], <<2>>)
           [] o[1] = "SimpleOptionalRecord" -> SetAttr(rest, o[2], 3)
           [] OTHER -> rest

\* an element of each kind with every optional attribute set
FullElements ==
    {WithOptional(Element(tag, Len(_gds_objs(tag)),
                          [plex |-> TRUE, strans |-> TRUE, mag |-> TRUE,
                           angle |-> TRUE, props |-> TRUE]),
                  Len(_gds_objs(tag))) : tag \in _tag_to_class_map}

\* the Libraries in memory: none, one or two structures, of no, one or two
\* elements; one with a version that is no INT2
Libraries ==
    {LibraryOf(<<>>), LibraryOf(<<StructureOf(<<65>>, <<>>)>>),
     [LibraryOf(<<>>) EXCEPT !["_version"] = 40000]}
    \cup {LibraryOf(<<StructureOf(<<65>>, <<e>>)>>) :
              e \in Elements \cup Boundaries \cup FullElements}
    \cup {LibraryOf(<<StructureOf(<<65>>, <<e>>),
                      StructureOf(<<66>>, <<NodeOf, e>>)>>) :
              e \in {x \in Elements : x["_gds_tag"] \in {SREF, NODE}}}

InitRoundTrip ==
    /\ pc = "memory"
    /\ cur = NoRecord
    /\ pulled = <<>>
    /\ err = NoError
    /\ at = ""
    /\ lib = EmptyObject
    /\ strc = EmptyObject
    /\ elem = EmptyObject
    /\ fld = 0
    /\ obj = NoObj
    /\ rec = NoRecord
    /\ props = <<>>
    /\ propattr = 0
    /\ out = <<>>
    /\ limit = 0
    /\ orig \in Libraries
    /\ stream = <<>>
    /\ spos = 0
    /\ arg = <<>>
    /\ res = <<>>

\* the bytes that saving recs one after another writes to the stream; err
\* is the exception of the first save that raises, val the bytes written
\* before it
RECURSIVE SaveAll(_, _)
SaveAll(recs, written) ==
    IF recs = <<>> THEN Returns(written)
    ELSE LET saved == RecordData_save(Head(recs)) IN
         IF saved.err # NoError THEN [err |-> saved.err, val |-> written]
         ELSE SaveAll(Tail(recs), written \o saved.val)

\* lib.save(stream) on the Library in memory; then Library(all_records(...))
\* is called on the stream written and comes to its first next(recs)
Library_save_memory ==
    /\ pc = "memory"
    /\ \E w \in {SaveAll(Library_save(orig), <<>>)} :
           /\ stream' = w.val
           /\ IF w.err # NoError
              THEN SetReader(Unwind(Raise([Reader0 EXCEPT !.pc = "save"],
                                          w.err)))
              ELSE SetReader(Reader0)
    /\ out' = Library_save(orig)
    /\ UNCHANGED <<pulled, limit, orig, spos,
                   arg, res>>

\* BufferedGenerator.next while reading back: all_records reads the next
\* record from the stream written and yields it, or RecordData.read raises
BufferedGenerator_next_written ==
    /\ pc # "memory"
    /\ ~ Stopped(Reader)
    /\ \E r \in {RecordData_read(stream, spos)} :
           /\ spos' = r.pos
           /\ IF r.err # NoError
              THEN /\ SetReader(Unwind(Raise([Reader EXCEPT !.pc = "next"],
                                             r.err)))
                   /\ pulled' = <<>>
              ELSE \E s \in {Unwind(Run([Reader EXCEPT !.cur = r.rec,
                                                       !.pull = FALSE]))} :
                       /\ SetReader(s)
                       /\ pulled' = (IF s.pc = "raised" THEN <<>>
                                     ELSE Append(pulled, r.rec))
    /\ UNCHANGED <<out, limit, orig, stream,
                   arg, res>>

NextRoundTrip ==
    \/ Library_save_memory
    \/ BufferedGenerator_next_written

SpecRoundTrip ==
    InitRoundTrip /\ [][NextRoundTrip]_vars

(***************************************************************************)
(* all_records(stream) over a byte stream.                                 *)
(***************************************************************************)
\* a record header of any declared size and tag, and some payload bytes
Frames ==
    {<<sh, sl, th, tl>> \o [i \in 1..n |-> b] :
        sh \in {0, 1}, sl \in 0..MaxDeclared, th \in {0, 4, 255},
        tl \in (0..7) \cup {255}, n \in 0..MaxPayload, b \in {0, 65}}

\* the ENDLIB record
EndlibFrame ==
    <<0, 4, 4, 0>>

\* the byte streams read: a frame cut off anywhere, or one with the ENDLIB
\* record before or after it
Streams ==
    UNION {{SubSeq(f, 1, k) : k \in 0..Len(f)} : f \in Frames}
    \cup {f \o EndlibFrame : f \in Frames}
    \cup {EndlibFrame \o f : f \in Frames}

InitFramer ==
    /\ pc = "all_records"
    /\ cur = NoRecord
    /\ pulled = <<>>
    /\ err = NoError
    /\ at = ""
    /\ lib = EmptyObject
    /\ strc = EmptyObject
    /\ elem = EmptyObject
    /\ fld = 0
    /\ obj = NoObj
    /\ rec = NoRecord
    /\ props = <<>>
    /\ propattr = 0
    /\ out = <<>>
    /\ limit = 0
    /\ orig = EmptyObject
    /\ stream \in Streams
    /\ spos = 0
    /\ arg = <<>>
    /\ res = <<>>

\* all_records that goes on reading after ENDLIB
all_records_yields_on ==
    /\ pc = "all_records"
    /\ RecordData_read(stream, spos).err = NoError
    /\ cur' = RecordData_read(stream, spos).rec
    /\ pulled' = Append(pulled, cur')
    /\ spos' = RecordData_read(stream, spos).pos
    /\ pc' = "all_records"
    /\ UNCHANGED <<err, at, lib, strc, elem, fld, obj, rec, props, propattr,
                   out, limit, orig, stream,
                   arg, res>>


\* all_records: rec = RecordData.read(stream) returns, and rec is yielded;
\* after ENDLIB the generator is exhausted
all_records_yields ==
    /\ pc = "all_records"
    /\ RecordData_read(stream, spos).err = NoError
    /\ cur' = RecordData_read(stream, spos).rec
    /\ pulled' = Append(pulled, cur')
    /\ spos' = RecordData_read(stream, spos).pos
    /\ pc' = (IF Tag(cur') = ENDLIB THEN "exhausted" ELSE "all_records")
    /\ UNCHANGED <<err, at, lib, strc, elem, fld, obj, rec, props, propattr,
                   out, limit, orig, stream,
                   arg, res>>

\* all_records: RecordData.read(stream) raises
all_records_raises ==
    /\ pc = "all_records"
    /\ RecordData_read(stream, spos).err # NoError
    /\ err' = RecordData_read(stream, spos).err
    /\ at' = "read"
    /\ spos' = RecordData_read(stream, spos).pos
    /\ pc' = "raised"
    /\ UNCHANGED <<cur, pulled, lib, strc, elem, fld, obj, rec, props,
                   propattr, out, limit, orig, stream,
                   arg, res>>

NextFramer ==
    \/ all_records_yields
    \/ all_records_raises

SpecFramer ==
    InitFramer /\ [][NextFramer]_vars

(***************************************************************************)
(* Calls of single functions of the record layer.  arg holds the name of   *)
(* the function and its arguments, res what it returned or raised.         *)
(***************************************************************************)
\* no stream is being read and no Library is under construction
NoReader ==
    /\ cur = NoRecord
    /\ pulled = <<>>
    /\ at = ""
    /\ lib = EmptyObject
    /\ strc = EmptyObject
    /\ elem = EmptyObject
    /\ fld = 0
    /\ obj = NoObj
    /\ rec = NoRecord
    /\ props = <<>>
    /\ propattr = 0
    /\ out = <<>>
    /\ limit = 0
    /\ orig = EmptyObject
    /\ spos = 0

\* the call is about to be made
Call(calls) ==
    /\ pc = "call"
    /\ arg \in calls
    /\ res = Returns(<<>>)
    /\ err = NoError

\* the call ends with r: it returns r.val or raises r.err
Ends(r) ==
    /\ res' = r
    /\ err' = r.err
    /\ pc' = (IF r.err = NoError THEN "returned" ELSE "raised")

\* the byte strings over b of at most n bytes
RECURSIVE BytesUpTo(_, _)
BytesUpTo(b, n) ==
    IF n = 0 THEN {<<>>}
    ELSE BytesUpTo(b, n - 1)
         \cup {Append(s, x) : s \in {y \in BytesUpTo(b, n - 1) :
                                        Len(y) = n - 1}, x \in b}

\* the payloads parsed and the strings packed
Payloads ==
    BytesUpTo({0, 65}, MaxString)
    \cup {[i \in 1..n |-> b] : n \in 0..MaxBytes, b \in {0, 65, 255}}

InitParse ==
    /\ Call(({"parse"} \X SupportedTypes \X Payloads)
            \cup ({"pack"} \X {ASCII} \X Payloads))
    /\ NoReader
    /\ stream = <<>>

\* parse_func(data) in RecordData.read
_PARSE_FUNCS_call ==
    /\ pc = "call"
    /\ arg[1] = "parse"
    /\ Ends(_PARSE_FUNCS(arg[2], arg[3]))
    /\ UNCHANGED <<cur, pulled, at, lib, strc, elem, fld, obj, rec, props,
                   propattr, out, limit, orig, stream, spos, arg>>

\* pack_func(self._data) in RecordData.save
_PACK_FUNCS_call ==
    /\ pc = "call"
    /\ arg[1] = "pack"
    /\ Ends(_PACK_FUNCS(arg[2], arg[3]))
    /\ UNCHANGED <<cur, pulled, at, lib, strc, elem, fld, obj, rec, props,
                   propattr, out, limit, orig, stream, spos, arg>>

NextParse ==
    \/ _PARSE_FUNCS_call
    \/ _PACK_FUNCS_call

SpecParse ==
    InitParse /\ [][NextParse]_vars

(***************************************************************************)
(* RecordData(tag, data).save(stream) on a stream that may hold bytes.     *)
(***************************************************************************)
\* the records saved: of every type, REAL4 included, with values in and out
\* of the range of their type, and strings about the largest payload
SavedRecords ==
    {RecordData(ENDLIB, <<>>), RecordData(4, <<>>), RecordData(4, <<1>>)}
    \cup {RecordData(STRANS, <<v>>) : v \in {0, 32768, 65535, 65536}}
    \cup {RecordData(HEADER, d) :
             d \in UNION {[1..n -> {0 - 32769, 0 - 1, 5, 32767, 40000}] :
                             n \in 0..2}}
    \cup {RecordData(XY, d) :
             d \in UNION {[1..n -> {0 - 2147483647, 0, 2147483647}] :
                             n \in 0..4}}
    \cup {RecordData(UNITS, <<Float_0_001, Float_1e_9>>),
          RecordData(MAG, <<Float_2>>)}
    \cup {RecordData(LIBNAME, s) : s \in BytesUpTo({0, 65}, MaxString)}

\* the record r with n bytes 0x41 more at the end of its data
Extended(r, n) ==
    RecordData(Tag(r), Data(r) \o [i \in 1..n |-> 65])

\* arg = <<"save", r, n, the stream before the call>>: Extended(r, n) is
\* saved, a string about as long as the largest payload when n is not 0
InitSave ==
    /\ Call(({"save"} \X SavedRecords \X {0} \X {<<>>, EndlibFrame})
            \cup ({"save"} \X {RecordData(LIBNAME, <<>>)}
                  \X ((65535 - 4 - Margin)..(65535 - 4 + Margin))
                  \X {<<>>, EndlibFrame}))
    /\ NoReader
    /\ stream = arg[4]

\* RecordData.save: the header and the packed data are written, unless an
\* exception is raised before
RecordData_save_call ==
    /\ pc = "call"
    /\ arg[1] = "save"
    /\ \E r \in {RecordData_save(Extended(arg[2], arg[3]))} :
           /\ Ends([r EXCEPT !.val = <<>>])
           /\ stream' = stream \o r.val
    /\ UNCHANGED <<cur, pulled, at, lib, strc, elem, fld, obj, rec, props,
                   propattr, out, limit, orig, spos, arg>>

NextSave ==
    RecordData_save_call

SpecSave ==
    InitSave /\ [][NextSave]_vars

(***************************************************************************)
(* The conversions between Python floats and GDSII reals.                  *)
(***************************************************************************)
\* the biased exponents of the doubles converted: of zero and the
\* denormals, about 2^-312 to 2^-260 (the base-16 exponent is below the
\* smallest of a GDSII real), about 1, about 2^252 (the largest base-16
\* exponent), of the largest double, and of the infinities
Exponents ==
    {0, 2046, 2047}
    \cup ((1023 - 321 - Span)..(1023 - 251 + Span))
    \cup ((1023 - Span)..(1023 + Span))
    \cup ((1023 + 244 - Span)..(1023 + 257 + Span))

\* their mantissas, thirteen hexadecimal digits each
Mantissas ==
    {Zeros(13), [i \in 1..13 |-> 15], Zeros(12) \o <<1>>,
     <<8>> \o Zeros(12), Float_0_001[3], Float_1e_9[3]}

Doubles ==
    ({0, 1} \X Exponents \X Mantissas) \cup {Float_0_001, Float_1e_9}

InitReal ==
    /\ Call(({"_real_to_int"} \X Doubles)
            \cup ({"save"}
                  \X ({RecordData(MAG, <<x>>) : x \in Doubles}
                      \cup {RecordData(UNITS, <<Float_0_001, x>>) :
                               x \in Doubles})
                  \X {0} \X {EndlibFrame}))
    /\ NoReader
    /\ stream = (IF arg[1] = "save" THEN arg[4] ELSE <<>>)

\* _real_to_int(num) in _pack_real8
_real_to_int_call ==
    /\ pc = "call"
    /\ arg[1] = "_real_to_int"
    /\ Ends(_real_to_int(arg[2]))
    /\ UNCHANGED <<cur, pulled, at, lib, strc, elem, fld, obj, rec, props,
                   propattr, out, limit, orig, stream, spos, arg>>

\* _int_to_real(n) in _parse_real8, of the GDSII real that _real_to_int
\* has returned
_int_to_real_call ==
    /\ pc = "returned"
    /\ arg[1] = "_real_to_int"
    /\ res' = Returns(_int_to_real(res.val))
    /\ pc' = "decoded"
    /\ UNCHANGED <<cur, pulled, err, at, lib, strc, elem, fld, obj, rec,
                   props, propattr, out, limit, orig, stream, spos, arg>>

NextReal ==
    \/ _real_to_int_call
    \/ _int_to_real_call
    \/ RecordData_save_call

SpecReal ==
    InitReal /\ [][NextReal]_vars

(***************************************************************************)
(* RecordData.points and RecordData.times of a record.                     *)
(***************************************************************************)
\* 2000-01-01 01:02:03 and 2010-08-14 21:10:35 as stored, twice over
StoredTimes ==
    <<100, 1, 1, 1, 2, 3, 110, 8, 14, 21, 10, 35,
      100, 1, 1, 1, 2, 3, 110, 8, 14, 21, 10, 35>>

\* records of no to MaxCoordinates coordinates; records of no to MaxValues
\* values of the stored times, and of twelve values each 0 or 1 (a month
\* or a day 0 is in no calendar)
InitProperties ==
    /\ Call(({"points"}
             \X {RecordData(XY, d) :
                    d \in UNION {[1..n -> {0 - 5, 0, 1}] :
                                    n \in 0..MaxCoordinates}})
            \cup ({"points"}
                  \X {RecordData(XY, <<0, 1, 2, 3, 4, 5>>),
                      RecordData(BGNLIB, <<>>), RecordData(HEADER, <<5>>)})
            \cup ({"times"}
                  \X {RecordData(tag, SubSeq(StoredTimes, 1, n)) :
                         tag \in {BGNLIB, BGNSTR}, n \in 0..MaxValues})
            \cup ({"times"}
                  \X {RecordData(tag, d) :
                         tag \in {BGNLIB, BGNSTR}, d \in [1..12 -> {0, 1}]}))
    /\ NoReader
    /\ stream = <<>>

\* rec.points
RecordData_points_call ==
    /\ pc = "call"
    /\ arg[1] = "points"
    /\ Ends(IF points_error(arg[2]) # NoError
            THEN [err |-> points_error(arg[2]), val |-> <<>>]
            ELSE Returns(points(arg[2])))
    /\ UNCHANGED <<cur, pulled, at, lib, strc, elem, fld, obj, rec, props,
                   propattr, out, limit, orig, stream, spos, arg>>

\* rec.times
RecordData_times_call ==
    /\ pc = "call"
    /\ arg[1] = "times"
    /\ Ends(IF times_error(arg[2]) # NoError
            THEN [err |-> times_error(arg[2]), val |-> <<>>]
            ELSE Returns(times(arg[2])))
    /\ UNCHANGED <<cur, pulled, at, lib, strc, elem, fld, obj, rec, props,
                   propattr, out, limit, orig, stream, spos, arg>>

NextProperties ==
    \/ RecordData_points_call
    \/ RecordData_times_call

SpecProperties ==
    InitProperties /\ [][NextProperties]_vars

(***************************************************************************)
(* obj.read(instance, gen) of a SimpleRecord descriptor, called with an    *)
(* element and a generator whose current record is cur.                    *)
(***************************************************************************)
\* the SimpleRecord descriptors of src/gdsii/elements.py
SimpleRecords ==
    {layer, data_type, text_type, node_type, box_type}

\* the elements that have the descriptor o: new ones, and ones whose
\* attribute has a value already
Instances(o) ==
    LET new == {SetAttr(EmptyObject, "_gds_tag", tag) :
                   tag \in {t \in _tag_to_class_map :
                               \E i \in DOMAIN _gds_objs(t) :
                                   _gds_objs(t)[i] = o}} IN
    new \cup {SetAttr(e, o[2], 9) : e \in new}

\* the records gen.current may be: those of a stream, and the records of
\* the descriptors' tags with no value
CurrentRecords ==
    Records \cup {RecordData(o[3], <<>>) : o \in SimpleRecords}

InitSimpleRecord ==
    /\ pc = "read"
    /\ cur \in CurrentRecords
    /\ pulled = <<cur>>
    /\ err = NoError
    /\ at = ""
    /\ lib = EmptyObject
    /\ strc = EmptyObject
    /\ obj \in SimpleRecords
    /\ elem \in Instances(obj)
    /\ fld = 0
    /\ rec = NoRecord
    /\ props = <<>>
    /\ propattr = 0
    /\ out = <<>>
    /\ limit = 0
    /\ orig = EmptyObject
    /\ stream = <<>>
    /\ spos = 0
    /\ arg = <<>>
    /\ res = <<>>

\* SimpleRecord.read raises at one of its checks, or sets the attribute and
\* next(gen) yields a record
SimpleRecord_read_call ==
    /\ pc = "read"
    /\ \E s \in {SimpleRecord_read([Reader EXCEPT !.pull = FALSE])} :
           IF s.pc = "raised"
           THEN /\ SetReader(s)
                /\ pulled' = pulled
           ELSE \E r \in Records :
                    /\ SetReader([s EXCEPT !.cur = r])
                    /\ pulled' = Append(pulled, r)
    /\ UNCHANGED <<out, limit, orig, stream, spos, arg, res>>

\* SimpleRecord.read sets the attribute and next(gen) raises: the generator
\* has no record left
SimpleRecord_read_next_raises ==
    /\ pc = "read"
    /\ \E s \in {SimpleRecord_read([Reader EXCEPT !.pull = FALSE])} :
           /\ s.pc # "raised"
           /\ \E e \in SourceErrors :
                  SetReader(Raise([s EXCEPT !.pc = "next"], e))
    /\ UNCHANGED <<pulled, out, limit, orig, stream, spos, arg, res>>

NextSimpleRecord ==
    \/ SimpleRecord_read_call
    \/ SimpleRecord_read_next_raises

SpecSimpleRecord ==
    InitSimpleRecord /\ [][NextSimpleRecord]_vars

(***************************************************************************)
(* obj.read(instance, gen) and obj.save(instance, stream) of a             *)
(* SimpleOptionalRecord descriptor.  arg is <<self, instance>> as the call *)
(* received them.                                                          *)
(***************************************************************************)
\* the SimpleOptionalRecord descriptors of src/gdsii/elements.py
SimpleOptionalRecords ==
    {plex, path_type, width, bgn_extn, end_extn}

InitSimpleOptionalRecord ==
    /\ pc = "read"
    /\ obj \in SimpleOptionalRecords
    /\ cur \in Records \cup {RecordData(obj[3], <<>>)}
    /\ pulled = <<cur>>
    /\ err = NoError
    /\ at = ""
    /\ lib = EmptyObject
    /\ strc = EmptyObject
    /\ elem \in Instances(obj)
    /\ fld = 0
    /\ rec = NoRecord
    /\ props = <<>>
    /\ propattr = 0
    /\ out = <<>>
    /\ limit = 0
    /\ orig = EmptyObject
    /\ stream = <<>>
    /\ spos = 0
    /\ arg = <<obj, elem>>
    /\ res = <<>>

\* SimpleOptionalRecord.read up to its next(gen), or to its end when the
\* current record has another tag
SimpleOptionalRecord_read_call ==
    /\ pc = "read"
    /\ SetReader(SimpleOptionalRecord_read([Reader EXCEPT !.pull = FALSE]))
    /\ UNCHANGED <<pulled, out, limit, orig, stream, spos, arg, res>>

\* next(gen) yields a record, then self.optional_read(instance, gen, rec)
SimpleOptionalRecord_read_next ==
    /\ pc = "optional_read"
    /\ \E r \in Records :
           /\ SetReader(SimpleOptionalRecord_optional_read(
                            [Reader EXCEPT !.cur = r, !.pull = FALSE]))
           /\ pulled' = Append(pulled, r)
    /\ UNCHANGED <<out, limit, orig, stream, spos, arg, res>>

\* next(gen) raises
SimpleOptionalRecord_read_next_raises ==
    /\ pc = "optional_read"
    /\ \E e \in SourceErrors :
           SetReader(Raise([Reader EXCEPT !.pc = "next"], e))
    /\ UNCHANGED <<pulled, out, limit, orig, stream, spos, arg, res>>

\* SimpleOptionalRecord.save on the same instance
SimpleOptionalRecord_save_call ==
    /\ pc = "read"
    /\ out' = SimpleOptionalRecord_save(obj, elem)
    /\ pc' = "saved"
    /\ UNCHANGED <<cur, pulled, err, at, lib, strc, elem, fld, obj, rec,
                   props, propattr, limit, orig, stream, spos, arg, res>>

NextSimpleOptionalRecord ==
    \/ SimpleOptionalRecord_read_call
    \/ SimpleOptionalRecord_read_next
    \/ SimpleOptionalRecord_read_next_raises
    \/ SimpleOptionalRecord_save_call

SpecSimpleOptionalRecord ==
    InitSimpleOptionalRecord /\ [][NextSimpleOptionalRecord]_vars

(***************************************************************************)
(* properties.read(instance, gen) on the records of a generator, and       *)
(* properties.save(instance, stream) followed by properties.read on the    *)
(* bytes written.  arg is <<self, instance>> as the first call received    *)
(* them.                                                                   *)
(***************************************************************************)
\* the statements of one descriptor's read from s up to its next next(gen),
\* to its return or to the exception it raises
RECURSIVE RunRead(_)
RunRead(s) ==
    IF s.pull \/ s.pc \in {"raised", "return"} THEN s
    ELSE RunRead(Statement(s))

\* the records the generator may yield: properties of two keys and of two
\* values among them
PropertyRecords ==
    Records \cup {RecordData(PROPATTR, <<2>>), RecordData(PROPVALUE, <<80>>)}

\* the property lists of an element in memory, of at most n properties
RECURSIVE PropertyLists(_)
PropertyLists(n) ==
    IF n = 0 THEN {<<>>}
    ELSE PropertyLists(n - 1)
         \cup {Append(l, <<k, v>>) :
                  l \in {x \in PropertyLists(n - 1) : Len(x) = n - 1},
                  k \in {1, 2},
                  v \in {<<>>, <<80>>, <<80, 81>>, <<80, 0>>}}

\* cls.__new__(cls) of the element class of tag
NewElement(tag) ==
    SetAttr(EmptyObject, "_gds_tag", tag)

InitPropertiesRecord ==
    /\ obj = properties
    /\ \/ /\ pc = "read"
          /\ cur \in PropertyRecords
          /\ pulled = <<cur>>
          /\ elem \in {NewElement(BOUNDARY)}
          /\ limit = MaxPropertyPulls
       \/ /\ pc = "memory"
          /\ cur = NoRecord
          /\ pulled = <<>>
          /\ elem \in {SetAttr(NewElement(BOUNDARY), "_properties", l) :
                          l \in PropertyLists(MaxProperties)}
          /\ limit = 0
    /\ err = NoError
    /\ at = ""
    /\ lib = EmptyObject
    /\ strc = EmptyObject
    /\ fld = 0
    /\ rec = NoRecord
    /\ props = <<>>
    /\ propattr = 0
    /\ out = <<>>
    /\ orig = EmptyObject
    /\ stream = <<>>
    /\ spos = 0
    /\ arg = <<obj, elem>>
    /\ res = <<>>

\* PropertiesRecord.read up to its first next(gen), or to its end
PropertiesRecord_read_call ==
    /\ pc = "read"
    /\ SetReader(RunRead([Reader EXCEPT !.pull = FALSE]))
    /\ UNCHANGED <<pulled, out, limit, orig, stream, spos, arg, res>>

\* next(gen) yields a record and PropertiesRecord.read goes on
PropertiesRecord_read_next ==
    /\ pc \in {"PROPATTR", "PROPVALUE"}
    /\ Len(pulled) < limit
    /\ \E r \in PropertyRecords :
           /\ SetReader(RunRead([Reader EXCEPT !.cur = r, !.pull = FALSE]))
           /\ pulled' = Append(pulled, r)
    /\ UNCHANGED <<out, limit, orig, stream, spos, arg, res>>

\* next(gen) raises
PropertiesRecord_read_next_raises ==
    /\ pc \in {"PROPATTR", "PROPVALUE"}
    /\ limit > 0
    /\ \E e \in SourceErrors :
           SetReader(Raise([Reader EXCEPT !.pc = "next"], e))
    /\ UNCHANGED <<pulled, out, limit, orig, stream, spos, arg, res>>

\* PropertiesRecord.save, then ElementBase.save's ENDEL record
PropertiesRecord_save_call ==
    /\ pc = "memory"
    /\ out' = PropertiesRecord_save(obj, elem) \o <<RecordData(ENDEL, <<>>)>>
    /\ \E w \in {SaveAll(out', <<>>)} :
           /\ stream' = w.val
           /\ IF w.err # NoError
              THEN SetReader(Raise([Reader EXCEPT !.pc = "save"], w.err))
              ELSE SetReader([Reader EXCEPT !.pc = "written"])
    /\ UNCHANGED <<pulled, limit, orig, spos, arg, res>>

\* PropertiesRecord.read on a new element and a generator over the bytes
\* written: gen.current is the first record of the stream
PropertiesRecord_read_written ==
    /\ pc = "written"
    /\ \E r \in {RecordData_read(stream, 0)} :
           /\ spos' = r.pos
           /\ IF r.err # NoError
              THEN /\ SetReader(Raise([Reader EXCEPT !.pc = "next"], r.err))
                   /\ pulled' = pulled
              ELSE /\ SetReader(RunRead([Reader EXCEPT
                                            !.pc = "read", !.pull = FALSE,
                                            !.cur = r.rec,
                                            !.elem = NewElement(BOUNDARY)]))
                   /\ pulled' = <<r.rec>>
    /\ UNCHANGED <<out, limit, orig, stream, arg, res>>

\* next(gen) while reading back: the next record of the bytes written
PropertiesRecord_read_next_written ==
    /\ pc \in {"PROPATTR", "PROPVALUE"}
    /\ limit = 0
    /\ \E r \in {RecordData_read(stream, spos)} :
           /\ spos' = r.pos
           /\ IF r.err # NoError
              THEN /\ SetReader(Raise([Reader EXCEPT !.pc = "next"], r.err))
                   /\ pulled' = pulled
              ELSE /\ SetReader(RunRead([Reader EXCEPT !.cur = r.rec,
                                                       !.pull = FALSE]))
                   /\ pulled' = Append(pulled, r.rec)
    /\ UNCHANGED <<out, limit, orig, stream, arg, res>>

NextPropertiesRecord ==
    \/ PropertiesRecord_read_call
    \/ PropertiesRecord_read_next
    \/ PropertiesRecord_read_next_raises
    \/ PropertiesRecord_save_call
    \/ PropertiesRecord_read_written
    \/ PropertiesRecord_read_next_written

SpecPropertiesRecord ==
    InitPropertiesRecord /\ [][NextPropertiesRecord]_vars

(***************************************************************************)
(* The elements of a structure: read from the records of a generator, as   *)
(* in SpecElements, or held in memory and saved by ElementBase.save.       *)
(***************************************************************************)
InitElementBase ==
    \/ InitElements
    \/ /\ pc = "memory"
       /\ cur = NoRecord
       /\ pulled = <<>>
       /\ err = NoError
       /\ at = ""
       /\ lib = EmptyObject
       /\ strc = EmptyObject
       /\ elem \in Elements
       /\ fld = 0
       /\ obj = NoObj
       /\ rec = NoRecord
       /\ props = <<>>
       /\ propattr = 0
       /\ out = <<>>
       /\ limit = 0
       /\ orig = EmptyObject
       /\ stream = <<>>
       /\ spos = 0
       /\ arg = <<>>
       /\ res = <<>>

\* elem.save(stream) on the element in memory
ElementBase_save_call ==
    /\ pc = "memory"
    /\ out' = ElementBase_save(elem)
    /\ pc' = "written"
    /\ UNCHANGED <<cur, pulled, err, at, lib, strc, elem, fld, obj, rec,
                   props, propattr, limit, orig, stream, spos, arg, res>>

NextElementBase ==
    \/ BufferedGenerator_next
    \/ BufferedGenerator_next_raises
    \/ Library_save_stream
    \/ ElementBase_save_call

SpecElementBase ==
    InitElementBase /\ [][NextElementBase]_vars

(***************************************************************************)
(* gdsii/_utils.py: a BufferedGenerator used alone.  stream holds the      *)
(* records its generator yields and spos how many it has yielded; cur is   *)
(* _current (NoRecord while the attribute does not exist), pulled the      *)
(* records taken from the generator, arg the reads and calls made, each    *)
(* with whether it returned, and res what the last one returned or raised. *)
(***************************************************************************)
\* the generators wrapped: up to MaxSource records
RECURSIVE Sources(_)
Sources(n) ==
    IF n = 0 THEN {<<>>}
    ELSE Sources(n - 1)
         \cup {Append(s, r) :
                  s \in {x \in Sources(n - 1) : Len(x) = n - 1},
                  r \in {RecordData(HEADER, <<5>>), RecordData(ENDSTR, <<>>),
                         RecordData(ENDLIB, <<>>)}}

\* BufferedGenerator(generator)
InitBufferedGenerator ==
    /\ pc = "gen"
    /\ cur = NoRecord
    /\ pulled = <<>>
    /\ err = NoError
    /\ at = ""
    /\ lib = EmptyObject
    /\ strc = EmptyObject
    /\ elem = EmptyObject
    /\ fld = 0
    /\ obj = NoObj
    /\ rec = NoRecord
    /\ props = <<>>
    /\ propattr = 0
    /\ out = <<>>
    /\ limit = 0
    /\ orig = EmptyObject
    /\ stream \in Sources(MaxSource)
    /\ spos = 0
    /\ arg = <<>>
    /\ res = <<>>

\* self._current = next(self._generator); return self._current, made as
\* the read or call named; an exhausted generator raises StopIteration and
\* _current is not assigned
BufferedGenerator_next_body(name) ==
    IF spos < Len(stream)
    THEN /\ cur' = stream[spos + 1]
         /\ spos' = spos + 1
         /\ pulled' = Append(pulled, stream[spos + 1])
         /\ res' = <<"return", stream[spos + 1]>>
         /\ arg' = Append(arg, <<name, TRUE>>)
    ELSE /\ res' = <<"raise", Raised("StopIteration", 0 - 1)>>
         /\ arg' = Append(arg, <<name, FALSE>>)
         /\ UNCHANGED <<cur, spos, pulled>>

\* the current property with the hasattr test left out: every read fetches
BufferedGenerator_current_fetches ==
    /\ pc = "gen"
    /\ Len(arg) < MaxCalls
    /\ BufferedGenerator_next_body("current")
    /\ UNCHANGED <<pc, err, at, lib, strc, elem, fld, obj, rec, props,
                   propattr, out, limit, orig, stream>>

\* BufferedGenerator.current
BufferedGenerator_current ==
    /\ pc = "gen"
    /\ Len(arg) < MaxCalls
    /\ IF cur = NoRecord
       THEN BufferedGenerator_next_body("current")
       ELSE /\ res' = <<"return", cur>>
            /\ arg' = Append(arg, <<"current", TRUE>>)
            /\ UNCHANGED <<cur, spos, pulled>>
    /\ UNCHANGED <<pc, err, at, lib, strc, elem, fld, obj, rec, props,
                   propattr, out, limit, orig, stream>>

\* BufferedGenerator.next, called alone
BufferedGenerator_next_call ==
    /\ pc = "gen"
    /\ Len(arg) < MaxCalls
    /\ BufferedGenerator_next_body("next")
    /\ UNCHANGED <<pc, err, at, lib, strc, elem, fld, obj, rec, props,
                   propattr, out, limit, orig, stream>>

NextBufferedGenerator ==
    \/ BufferedGenerator_current
    \/ BufferedGenerator_next_call

SpecBufferedGenerator ==
    InitBufferedGenerator /\ [][NextBufferedGenerator]_vars

(***************************************************************************)
(* _int_to_real of any 64-bit pattern, given as its eight bytes.           *)
(***************************************************************************)
\* sign and exponent bytes, and mantissas: zero, normalised, and with one
\* or more leading hexadecimal digits zero
Patterns ==
    {<<e, m1, m2, 0, 0, 0, 0, m7>> :
        e \in {0, 64, 65, 127, 128, 193, 255}, m1 \in {0, 1, 15, 16, 255},
        m2 \in {0, 1, 128}, m7 \in {0, 1}}

InitIntToReal ==
    /\ Call({"_int_to_real"} \X Patterns)
    /\ NoReader
    /\ stream = <<>>

\* _int_to_real(num)
_int_to_real_pattern ==
    /\ pc = "call"
    /\ arg[1] = "_int_to_real"
    /\ Ends(Returns(_int_to_real(arg[2])))
    /\ UNCHANGED <<cur, pulled, at, lib, strc, elem, fld, obj, rec, props,
                   propattr, out, limit, orig, stream, spos, arg>>

NextIntToReal ==
    _int_to_real_pattern

SpecIntToReal ==
    InitIntToReal /\ [][NextIntToReal]_vars

(***************************************************************************)
(* RecordData.save of a record, then RecordData.read of the bytes written. *)
(***************************************************************************)
InitSaveRead ==
    /\ Call({"save"}
            \X (SavedRecords
                \cup {RecordData(MAG, <<x>>) : x \in Doubles}
                \cup {RecordData(MAG, <<>>), RecordData(PROPVALUE, <<80, 0>>),
                      RecordData(PROPVALUE, <<80, 0, 0>>)})
            \X {0} \X {<<>>})
    /\ NoReader
    /\ stream = <<>>

\* RecordData.read(stream) from the start of the bytes that save has written
RecordData_read_saved ==
    /\ pc = "returned"
    /\ arg[1] = "save"
    /\ \E r \in {RecordData_read(stream, 0)} :
           /\ res' = [err |-> r.err, val |-> r.rec]
           /\ err' = r.err
           /\ spos' = r.pos
    /\ pc' = "read back"
    /\ UNCHANGED <<cur, pulled, at, lib, strc, elem, fld, obj, rec, props,
                   propattr, out, limit, orig, stream, arg>>

NextSaveRead ==
    \/ RecordData_save_call
    \/ RecordData_read_saved

SpecSaveRead ==
    InitSaveRead /\ [][NextSaveRead]_vars

(***************************************************************************)
(* Library.__init__ run to its end: the reader is sequential code, so it   *)
(* goes on as long as it can; the record source is finite, limit records,  *)
(* and raises EndOfFileError (or another of its errors) when asked for     *)
(* more.  The runs are taken up at the start of the read and before each   *)
(* of its loops.                                                           *)
(***************************************************************************)
\* what the source has yielded when the run is taken up: nothing; the
\* header up to FORMAT, before the MASK loop; a structure with a Node and
\* the first fields of an SRef, before the property loop; a structure with
\* a Node up to its ENDSTR, back in the structure loop
Beginnings ==
    {<<>>,
     SubSeq(Prefix, 1, 3) \o <<RecordData(FORMAT, <<1>>)>>,
     Prefix \o NodeElement
         \o <<RecordData(SREF, <<>>), RecordData(SNAME, <<65>>),
              RecordData(XY, <<0, 0>>)>>,
     Prefix \o NodeElement \o <<RecordData(ENDSTR, <<>>)>>}

InitTerminates ==
    \E p \in Beginnings :
        Start(Feed(Reader0, p), p, Len(p) + MaxSequence)

SpecTerminates ==
    InitTerminates /\ [][Next]_vars /\ WF_vars(Next)

(***************************************************************************)
(* What the claims speak of, stated over the records the source has        *)
(* yielded rather than over the reader's position.                         *)
(***************************************************************************)
TagsOf(recs) ==
    [i \in DOMAIN recs |-> Tag(recs[i])]

Last(seq) ==
    seq[Len(seq)]

\* this step, the record source has yielded a record (cur') to the reader
Yields ==
    pc' # "saved" /\ at' # "next"

(***************************************************************************)
(* C1: for every record sequence F that Library read accepts, optional     *)
(* records included, Library.save of the Library read from F emits         *)
(* exactly F: same tags, same payloads, same order.                        *)
(***************************************************************************)
C1_SaveEmitsWhatWasRead ==
    pc = "saved" => out = pulled

(***************************************************************************)
(* C2: for every Library in memory, reading back the records Library.save  *)
(* writes succeeds and yields a Library equal to it.                       *)
(***************************************************************************)
\* the Library in memory has been saved and the read of the stream ended
ReadBackDone ==
    orig # EmptyObject /\ pc \in {"loaded", "raised"} /\ at # "save"

C2_ReadBackEqual ==
    ReadBackDone => (pc = "loaded" /\ lib = orig)

(***************************************************************************)
(* C3: the header is accepted only in the order HEADER, BGNLIB,            *)
(* [LIBDIRSIZE], [SRFNAME], [LIBSECUR], LIBNAME, [REFLIBS], [FONTS],       *)
(* [ATTRTABLE], [GENERATIONS], [FORMAT [MASK+ ENDMASKS]], UNITS; a record  *)
(* whose tag may not follow what was read so far makes the read fail with  *)
(* MissingRecord carrying that tag, and a record whose tag may follow is   *)
(* never refused with MissingRecord.                                       *)
(***************************************************************************)
HeaderOrder ==
    <<HEADER, BGNLIB, LIBDIRSIZE, SRFNAME, LIBSECUR, LIBNAME, REFLIBS, FONTS,
      ATTRTABLE, GENERATIONS, FORMAT, UNITS>>

MandatoryHeader ==
    {HEADER, BGNLIB, LIBNAME, UNITS}

\* the tags that may follow the header tags ts
HeaderFollow(ts) ==
    LET after(p) == {HeaderOrder[j] : j \in
                        {k \in (p + 1)..Len(HeaderOrder) :
                            \A m \in (p + 1)..(k - 1) :
                                HeaderOrder[m] \notin MandatoryHeader}} IN
    IF ts = <<>> THEN after(0)
    ELSE IF Last(ts) = FORMAT THEN {MASK, UNITS}
    ELSE IF Last(ts) = MASK THEN {MASK, ENDMASKS}
    ELSE IF Last(ts) = ENDMASKS THEN {UNITS}
    ELSE after(CHOOSE p \in DOMAIN HeaderOrder : HeaderOrder[p] = Last(ts))

\* no UNITS record has been read yet
InHeader ==
    \A i \in DOMAIN pulled : Tag(pulled[i]) # UNITS

C3_HeaderOrder ==
    [][(InHeader /\ Yields) =>
           IF Tag(cur') \in HeaderFollow(TagsOf(pulled))
           THEN /\ err'[1] # "MissingRecord"
                /\ err' = NoError => pulled' = Append(pulled, cur')
           ELSE /\ err' = Raised("MissingRecord", Tag(cur'))
                /\ pc' = "raised"]_vars

\* an optional record that came twice, or after its place, has been refused
C3_Witness ==
    /\ pc = "raised"
    /\ at = "LIBNAME"
    /\ err = Raised("MissingRecord", LIBDIRSIZE)

(***************************************************************************)
(* C4: after UNITS and after each structure, BGNSTR starts a structure,    *)
(* ENDLIB ends the read successfully, and any other tag fails it with      *)
(* FormatError; the structures are in the list in stream order.            *)
(***************************************************************************)
AtStructureLoop ==
    pulled # <<>> /\ Tag(Last(pulled)) \in {UNITS, ENDSTR}

\* the names of the list's structures are those of the stream's STRNAME
\* records, in order, one structure for each ENDSTR
StructuresInOrder ==
    HasAttr(lib, "_structures") =>
        LET names == SelectSeq(pulled, LAMBDA r : Tag(r) = STRNAME) IN
        /\ Len(lib["_structures"]) =
               Cardinality({i \in DOMAIN pulled : Tag(pulled[i]) = ENDSTR})
        /\ \A i \in DOMAIN lib["_structures"] :
               lib["_structures"][i]["_name"] = Data(names[i])

C4_StructureLoop ==
    /\ [][(AtStructureLoop /\ Yields) =>
              CASE Tag(cur') = BGNSTR ->
                       /\ err'[1] # "FormatError"
                       /\ err' = NoError =>
                              /\ pulled' = Append(pulled, cur')
                              /\ lib' = lib
                              /\ strc'["_elements"] = <<>>
                [] Tag(cur') = ENDLIB ->
                       /\ pc' = "loaded"
                       /\ err' = NoError
                       /\ lib' = lib
                       /\ pulled' = Append(pulled, cur')
                [] OTHER -> err' = Raised("FormatError", 0 - 1)]_vars
    /\ []StructuresInOrder

\* a library of two structures with different names has been read
C4_Witness ==
    /\ pc = "loaded"
    /\ Len(lib["_structures"]) = 2
    /\ lib["_structures"][1]["_name"] # lib["_structures"][2]["_name"]

(***************************************************************************)
(* C5: a structure needs STRNAME right after BGNSTR (MissingRecord         *)
(* otherwise), takes one STRCLASS directly after STRNAME and no second     *)
(* one, reads elements until ENDSTR, keeps them in stream order, and       *)
(* returns with that ENDSTR as the current record.                         *)
(***************************************************************************)
\* the record that comes next stands where an element or ENDSTR may
AtElementPosition ==
    pulled # <<>> /\ Tag(Last(pulled)) \in {STRNAME, STRCLASS, ENDEL}

\* the records of the structure being read, from its BGNSTR on
CurrentStructure ==
    LET b == {i \in DOMAIN pulled : Tag(pulled[i]) = BGNSTR} IN
    IF b = {} THEN <<>>
    ELSE SubSeq(pulled, CHOOSE i \in b : \A j \in b : j <= i, Len(pulled))

\* the elements stored are the first of those opened, in the order opened
ElementsInOrder ==
    HasAttr(strc, "_elements") =>
        LET opened == SelectSeq(CurrentStructure,
                                LAMBDA r : Tag(r) \in ElementTags) IN
        /\ Len(strc["_elements"]) <= Len(opened)
        /\ Len(strc["_elements"]) >= Len(opened) - 1
        /\ \A i \in DOMAIN strc["_elements"] :
               strc["_elements"][i]["_gds_tag"] = Tag(opened[i])

\* the structure that returns at ENDSTR: the one being read, with the
\* element that was waiting for its return
Returned ==
    IF Tag(Last(pulled)) = ENDEL
    THEN SetAttr(strc, "_elements", Append(strc["_elements"], elem))
    ELSE strc

C5_StructureRead ==
    /\ [][(pulled # <<>> /\ Yields) =>
              /\ Tag(Last(pulled)) = BGNSTR =>
                     IF Tag(cur') = STRNAME
                     THEN err' = NoError /\ strc'["_name"] = Data(cur')
                     ELSE err' = Raised("MissingRecord", Tag(cur'))
              /\ (Tag(Last(pulled)) = STRNAME /\ Tag(cur') = STRCLASS) =>
                     err' = NoError /\ strc' = strc
              /\ (Tag(Last(pulled)) = STRCLASS /\ Tag(cur') = STRCLASS) =>
                     pc' = "raised"
              /\ (AtElementPosition /\ Tag(cur') = ENDSTR) =>
                     /\ err' = NoError
                     /\ lib'["_structures"] =
                            Append(lib["_structures"], Returned)
                     /\ pulled' = Append(pulled, cur')]_vars
    /\ []ElementsInOrder

\* a structure of a Node and then an SRef has been read and returned
C5_Witness ==
    /\ Tag(cur) = ENDSTR
    /\ HasAttr(lib, "_structures")
    /\ Len(lib["_structures"]) = 1
    /\ [i \in DOMAIN lib["_structures"][1]["_elements"] |->
            lib["_structures"][1]["_elements"][i]["_gds_tag"]] = <<NODE, SREF>>

(***************************************************************************)
(* C6: a record at an element position whose tag is none of BOUNDARY,      *)
(* PATH, SREF, AREF, TEXT, NODE, BOX (nor ENDSTR) makes element loading    *)
(* fail with FormatError and with no other kind of failure.                *)
(***************************************************************************)
C6_UnknownElementTag ==
    (pc = "raised" /\ at = "load" /\ Tag(cur) \notin ElementTags) =>
        err[1] = "FormatError"

(***************************************************************************)
(* C7: an element read consumes the opening record, takes the field        *)
(* records in the order its kind declares, then needs ENDEL (MissingRecord *)
(* with the tag seen otherwise), pulls exactly one record past ENDEL and   *)
(* returns the element.                                                    *)
(***************************************************************************)
\* the tags of the fields of each kind of element, in the declared order
DeclaredOrder(tag) ==
    CASE tag = BOUNDARY -> <<ELFLAGS, PLEX, LAYER, DATATYPE, XY, PROPATTR,
                             PROPVALUE>>
      [] tag = PATH -> <<ELFLAGS, PLEX, LAYER, DATATYPE, PATHTYPE, WIDTH,
                         BGNEXTN, ENDEXTN, XY, PROPATTR, PROPVALUE>>
      [] tag = SREF -> <<ELFLAGS, PLEX, SNAME, STRANS, MAG, ANGLE, XY,
                         PROPATTR, PROPVALUE>>
      [] tag = AREF -> <<ELFLAGS, PLEX, SNAME, STRANS, MAG, ANGLE, COLROW,
                         XY, PROPATTR, PROPVALUE>>
      [] tag = TEXT -> <<ELFLAGS, PLEX, LAYER, TEXTTYPE, PRESENTATION,
                         PATHTYPE, WIDTH, STRANS, MAG, ANGLE, XY, STRINGTAG,
                         PROPATTR, PROPVALUE>>
      [] tag = NODE -> <<ELFLAGS, PLEX, LAYER, NODETYPE, XY>>
      [] tag = BOX -> <<ELFLAGS, PLEX, LAYER, BOXTYPE, XY, PROPATTR,
                        PROPVALUE>>

\* the fields every element that has them in its order must carry
MandatoryFields ==
    {LAYER, DATATYPE, SNAME, COLROW, XY, TEXTTYPE, STRINGTAG, NODETYPE,
     BOXTYPE}

\* the records of the element being read, from its opening record on
CurrentElement ==
    LET b == {i \in DOMAIN pulled : Tag(pulled[i]) \in ElementTags} IN
    IF b = {} THEN <<>>
    ELSE SubSeq(pulled, CHOOSE i \in b : \A j \in b : j <= i, Len(pulled))

\* a may come directly before b among the fields of an element of kind k;
\* 0 stands for the opening record and for ENDEL
MayFollow(k, a, b) ==
    LET order == DeclaredOrder(k)
        rank(t) == CHOOSE p \in DOMAIN order : order[p] = t
        lo == IF a = 0 THEN 0 ELSE rank(a)
        hi == IF b = 0 THEN Len(order) + 1 ELSE rank(b) IN
    /\ a = 0 \/ a \in {order[p] : p \in DOMAIN order}
    /\ b = 0 \/ b \in {order[p] : p \in DOMAIN order}
    /\ IF b = PROPVALUE THEN a = PROPATTR
       ELSE IF a = PROPATTR THEN FALSE
       ELSE IF a = PROPVALUE /\ b = PROPATTR THEN TRUE
       ELSE /\ lo < hi
            /\ \A p \in (lo + 1)..(hi - 1) : order[p] \notin MandatoryFields
            /\ b = MAG => a = STRANS
            /\ b = ANGLE => a \in {STRANS, MAG}

\* the field records taken so far follow the declared order
FieldsInOrder ==
    (HasAttr(elem, "_gds_tag") /\ CurrentElement # <<>>) =>
        LET e == CurrentElement
            t(i) == IF i = 1 \/ Tag(e[i]) = ENDEL THEN 0 ELSE Tag(e[i]) IN
        /\ Tag(e[1]) = elem["_gds_tag"]
        /\ \A i \in 2..Len(e) : MayFollow(Tag(e[1]), t(i - 1), t(i))
        /\ \A i \in 2..(Len(e) - 1) : Tag(e[i]) # ENDEL

C7_ElementRead ==
    /\ [][(pulled # <<>> /\ Yields) =>
              /\ (AtElementPosition /\ Tag(cur') \in ElementTags) =>
                     /\ err' = NoError
                     /\ elem' = SetAttr(EmptyObject, "_gds_tag", Tag(cur'))
                     /\ pulled' = Append(pulled, cur')
              /\ at' = "FIELD" =>
                     /\ Tag(cur') # ENDEL
                     /\ err' = Raised("MissingRecord", Tag(cur'))
              /\ (Tag(cur') = ENDEL /\ err' = NoError) =>
                     /\ elem'["_gds_tag"] = elem["_gds_tag"]
                     /\ strc' = strc
                     /\ pulled' = Append(pulled, cur')
              /\ (Tag(Last(pulled)) = ENDEL /\ err' = NoError) =>
                     /\ pulled' = Append(pulled, cur')
                     /\ Tag(cur') \in ElementTags \cup {ENDSTR}
                     /\ Tag(cur') \in ElementTags =>
                            strc'["_elements"] =
                                Append(strc["_elements"], elem)]_vars
    /\ []FieldsInOrder

\* a Text element has been read up to ENDEL and returned to the structure
C7_Witness ==
    /\ HasAttr(strc, "_elements")
    /\ strc["_elements"] # <<>>
    /\ Last(strc["_elements"])["_gds_tag"] = TEXT
    /\ Tag(Last(pulled)) \in ElementTags \cup {ENDSTR}

(***************************************************************************)
(* The next record of the byte stream as its bytes say, for C8 to C10.     *)
(***************************************************************************)
\* the bytes not read yet
Unread ==
    Len(stream) - spos

\* the total_size and the tag of the header at the stream's position
Declared ==
    stream[spos + 1] * 256 + stream[spos + 2]

HeaderTag ==
    stream[spos + 3] * 256 + stream[spos + 4]

\* a whole header and a whole payload of a legal size are there
WellFramed ==
    Unread >= 4 /\ Declared >= 4 /\ Declared % 2 = 0 /\ Unread >= Declared

(***************************************************************************)
(* C8: a header whose total_size is less than 4 or odd is rejected with    *)
(* IncorrectDataSize, whatever its tag, and no payload byte has been read: *)
(* the stream stands right after the four header bytes.                    *)
(***************************************************************************)
C8_BadLength ==
    [][(pc = "all_records" /\ Unread >= 4
        /\ (Declared < 4 \/ Declared % 2 = 1)) =>
           /\ pc' = "raised"
           /\ err'[1] = "IncorrectDataSize"
           /\ spos' = spos + 4]_vars

\* an odd total_size has been rejected with payload bytes left unread
C8_Witness ==
    /\ pc = "raised"
    /\ err[1] = "IncorrectDataSize"
    /\ spos = 4
    /\ Len(stream) > 4
    /\ stream[2] = 5

(***************************************************************************)
(* C9: with fewer than 4 header bytes left (none included), or fewer       *)
(* payload bytes left than total_size - 4, the read raises EndOfFileError; *)
(* a record is returned only when its whole header and payload were there, *)
(* and it carries the header's tag.                                        *)
(***************************************************************************)
C9_ShortRead ==
    [][pc = "all_records" =>
           /\ Unread < 4 => (pc' = "raised" /\ err'[1] = "EndOfFileError")
           /\ (Unread >= 4 /\ Declared >= 4 /\ Declared % 2 = 0
               /\ Unread < Declared) =>
                  (pc' = "raised" /\ err'[1] = "EndOfFileError")
           /\ pc' # "raised" =>
                  /\ WellFramed
                  /\ Tag(cur') = HeaderTag
                  /\ spos' = spos + Declared]_vars

\* a payload that stops short has been met
C9_Witness ==
    /\ pc = "raised"
    /\ err[1] = "EndOfFileError"
    /\ Len(stream) > 4
    /\ spos = Len(stream)
    /\ pulled = <<>>

(***************************************************************************)
(* C10: RecordData.read returns a record only when the low byte of the tag *)
(* is 0, 1, 2, 3, 5 or 6; a well-framed record with any other low byte,    *)
(* 4 (REAL4) included, raises UnsupportedTagType carrying the low byte.    *)
(***************************************************************************)
C10_TagTypes ==
    [][pc = "all_records" =>
           /\ pc' # "raised" => Tag(cur') % 256 \in {0, 1, 2, 3, 5, 6}
           /\ (WellFramed /\ HeaderTag % 256 \notin {0, 1, 2, 3, 5, 6}) =>
                  /\ pc' = "raised"
                  /\ err' = Raised("UnsupportedTagType", HeaderTag % 256)]_vars

\* a well-framed REAL4 record has been refused
C10_Witness ==
    /\ pc = "raised"
    /\ err = Raised("UnsupportedTagType", REAL4)
    /\ spos > 4

(***************************************************************************)
(* Calls of the parse and pack functions, for C13 and C14.                 *)
(***************************************************************************)
\* a parse function has been called, and how it ended
Parsed(typ) ==
    pc # "call" /\ arg[1] = "parse" /\ arg[2] = typ

\* the payload's length is one the rule of its type allows
LengthAllowed(typ, n) ==
    CASE typ = NODATA -> n = 0
      [] typ = BITARRAY -> n = 2
      [] typ = INT2 -> n # 0 /\ n % 2 = 0
      [] typ = INT4 -> n # 0 /\ n % 4 = 0
      [] typ = REAL8 -> n # 0 /\ n % 8 = 0
      [] typ = ASCII -> n # 0

\* the number of bytes of one value of the type
ItemSize(typ) ==
    CASE typ = INT2 -> 2
      [] typ = INT4 -> 4
      [] typ = REAL8 -> 8

(***************************************************************************)
(* C13: decoding a payload raises IncorrectDataSize exactly when its       *)
(* length breaks the rule of the type (NODATA: 0; BITARRAY: 2; INT2, INT4, *)
(* REAL8: a non-zero multiple of 2, 4, 8; ASCII: not 0); for every other   *)
(* length it returns, with length/2, length/4, length/8 values for INT2,   *)
(* INT4, REAL8.                                                            *)
(***************************************************************************)
C13_PayloadLength ==
    \A typ \in SupportedTypes :
        Parsed(typ) =>
            /\ (pc = "raised") <=> ~ LengthAllowed(typ, Len(arg[3]))
            /\ pc = "raised" => err[1] = "IncorrectDataSize"
            /\ (pc = "returned" /\ typ \in {INT2, INT4, REAL8}) =>
                   Len(res.val) * ItemSize(typ) = Len(arg[3])

\* a REAL8 payload of sixteen bytes has given two values
C13_Witness ==
    /\ Parsed(REAL8)
    /\ pc = "returned"
    /\ Len(arg[3]) = 16
    /\ Len(res.val) = 2

(***************************************************************************)
(* C14: ASCII decoding removes the last byte when it is 0x00 and nothing   *)
(* else (NULs before it are kept); ASCII encoding appends one 0x00 to a    *)
(* string of odd length and nothing to one of even length.                 *)
(***************************************************************************)
C14_AsciiNul ==
    /\ (Parsed(ASCII) /\ pc = "returned") =>
           /\ Len(res.val) = Len(arg[3])
                             - (IF arg[3][Len(arg[3])] = 0 THEN 1 ELSE 0)
           /\ \A i \in DOMAIN res.val : res.val[i] = arg[3][i]
    /\ (pc # "call" /\ arg[1] = "pack" /\ arg[2] = ASCII) =>
           /\ pc = "returned"
           /\ Len(res.val) = Len(arg[3]) + (Len(arg[3]) % 2)
           /\ \A i \in DOMAIN arg[3] : res.val[i] = arg[3][i]
           /\ Len(arg[3]) % 2 = 1 => res.val[Len(res.val)] = 0

\* a string ending in two NULs has lost one of them
C14_Witness ==
    /\ Parsed(ASCII)
    /\ pc = "returned"
    /\ arg[3] = <<65, 0, 0>>
    /\ res.val = <<65, 0>>

(***************************************************************************)
(* RecordData.save, for C11 and C12.                                       *)
(***************************************************************************)
\* the number of bytes the data of a record of the type is packed to
PackedLength(typ, data) ==
    CASE typ = NODATA -> 0
      [] typ = BITARRAY -> 2
      [] typ = INT2 -> 2 * Len(data)
      [] typ = INT4 -> 4 * Len(data)
      [] typ = REAL8 -> 8 * Len(data)
      [] typ = ASCII -> Len(data) + (Len(data) % 2)

\* the record to save can be packed: its type is supported and each value
\* is in the range of the type
Packs(r) ==
    /\ type_of_tag(Tag(r)) \in SupportedTypes
    /\ _PACK_FUNCS(type_of_tag(Tag(r)), Data(r)).err = NoError

\* save has returned; the bytes it has written
Saved ==
    pc = "returned" /\ arg[1] = "save"

Written ==
    SubSeq(stream, Len(arg[4]) + 1, Len(stream))

(***************************************************************************)
(* C11: when the packed payload and the 4 header bytes are more than       *)
(* 0xFFFF bytes, RecordData.save raises FormatError and the stream is as   *)
(* it was; otherwise it appends the 4-byte header (total size, tag) and    *)
(* the packed payload to the stream.                                       *)
(***************************************************************************)
C11_Oversize ==
    [][(pc = "call" /\ arg[1] = "save"
        /\ Packs(Extended(arg[2], arg[3]))) =>
           LET typ == type_of_tag(Tag(arg[2]))
               data == Data(Extended(arg[2], arg[3]))
               size == PackedLength(typ, data) + 4 IN
           IF size > 65535
           THEN /\ pc' = "raised"
                /\ err'[1] = "FormatError"
                /\ stream' = stream
           ELSE /\ pc' = "returned"
                /\ stream' = stream
                             \o <<size \div 256, size % 256,
                                  Tag(arg[2]) \div 256, Tag(arg[2]) % 256>>
                             \o _PACK_FUNCS(typ, data).val]_vars

\* a string one byte too long has been refused, the stream holding what it
\* held before
C11_Witness ==
    /\ pc = "raised"
    /\ arg[1] = "save"
    /\ err[1] = "FormatError"
    /\ arg[3] = 65532
    /\ stream = EndlibFrame

(***************************************************************************)
(* C12: the total_size field of every record RecordData.save has written   *)
(* is even, at least 4, at most 0xFFFF, and 4 more than the number of      *)
(* payload bytes written, whatever the type and the payload, strings of    *)
(* odd length included.                                                    *)
(***************************************************************************)
C12_TotalSize ==
    Saved =>
        LET total_size == Written[1] * 256 + Written[2] IN
        /\ total_size % 2 = 0
        /\ total_size >= 4
        /\ total_size <= 65535
        /\ total_size = Len(Written)

\* a string of three bytes has been written as a record of eight
C12_Witness ==
    /\ Saved
    /\ Tag(arg[2]) = LIBNAME
    /\ Len(Data(arg[2])) = 3
    /\ arg[3] = 0
    /\ Len(Written) = 8

(***************************************************************************)
(* The real conversions, for C15 to C17.  A double x is <<sign, biased     *)
(* exponent, mantissa>>: (-1)^sign * 1.mantissa * 2^(exponent - 1023).     *)
(***************************************************************************)
\* x is neither zero nor a denormal
Normal(x) ==
    x[2] # 0

\* the base-16 exponent of a normal x, 64 added: x = 0.m * 16^(that - 64)
\* with 1/16 <= 0.m < 1
Exp16Biased(x) ==
    (x[2] - 1022 + 3) \div 4 + 64

\* x is zero, or no smaller than the smallest GDSII real (mantissa 1,
\* exponent field 0: 2^-312) and no larger than the largest
Representable(x) ==
    \/ x[2] = 0 /\ x[3] = Zeros(13)
    \/ Normal(x) /\ x[2] - 1023 >= 0 - 312 /\ Exp16Biased(x) <= 127

\* x and y are the same number
SameNumber(x, y) ==
    \/ x = y
    \/ x[2] = 0 /\ y[2] = 0 /\ x[3] = Zeros(13) /\ y[3] = Zeros(13)

\* _real_to_int(x) has been called, and has ended
Encoded ==
    pc # "call" /\ arg[1] = "_real_to_int"

\* the 56 mantissa bits of the GDSII real of a normal x whose base-16
\* exponent is held in full: the leading 1 and the 52 bits, behind as many
\* zeros as make the binary exponent a multiple of 4
Mantissa56(x) ==
    LET lead == (4 - ((x[2] - 1022) % 4)) % 4 IN
    SubSeq(Zeros(lead) \o <<1>> \o BitsOfHex(x[3]) \o <<0, 0, 0>>, 1, 56)

(***************************************************************************)
(* C15: for every double x in the range of the GDSII reals,                *)
(* _int_to_real(_real_to_int(x)) is the number x; _real_to_int(1.0) is     *)
(* 0x4110000000000000, _real_to_int(-2.0) is 0xC120000000000000 and        *)
(* _real_to_int(0.0) is 0.                                                 *)
(***************************************************************************)
C15_RealRoundTrip ==
    /\ (Encoded /\ Representable(arg[2])) => pc # "raised"
    /\ (Encoded /\ Representable(arg[2]) /\ pc = "decoded") =>
           SameNumber(res.val, arg[2])
    /\ (Encoded /\ pc = "returned") =>
           /\ arg[2] = <<0, 1023, Zeros(13)>> =>
                  res.val = <<65, 16, 0, 0, 0, 0, 0, 0>>
           /\ arg[2] = <<1, 1024, Zeros(13)>> =>
                  res.val = <<193, 32, 0, 0, 0, 0, 0, 0>>
           /\ arg[2] = <<0, 0, Zeros(13)>> => res.val = Zeros(8)

(***************************************************************************)
(* C16: for a normal double whose biased base-16 exponent is in -14 .. -1, *)
(* _real_to_int does not raise: it returns the sign bit, exponent field 0  *)
(* and the 56-bit mantissa shifted right by 4 bits for each step below 0;  *)
(* for a biased exponent below -14 it returns 0.                           *)
(***************************************************************************)
C16_SmallReals ==
    (Encoded /\ Normal(arg[2])) =>
        LET b == Exp16Biased(arg[2]) IN
        /\ (b >= 0 - 14 /\ b <= 0 - 1) =>
               /\ pc # "raised"
               /\ pc = "returned" =>
                      res.val = <<128 * arg[2][1]>>
                                \o BytesOfBits(
                                       SubSeq(Zeros(4 * (0 - b))
                                              \o Mantissa56(arg[2]), 1, 56))
        /\ (b < 0 - 14 /\ pc = "returned") => res.val = Zeros(8)

(***************************************************************************)
(* C17: _real_to_int raises FormatError for every double whose biased      *)
(* base-16 exponent is above 0x7f and for no other; RecordData.save of a   *)
(* REAL8 record that holds such a value writes no byte.                    *)
(***************************************************************************)
C17_RealOverflow ==
    /\ Encoded =>
           ((pc = "raised" /\ err[1] = "FormatError")
            <=> (Normal(arg[2]) /\ Exp16Biased(arg[2]) > 127))
    /\ (pc # "call" /\ arg[1] = "save"
        /\ \E i \in DOMAIN Data(arg[2]) :
               /\ Normal(Data(arg[2])[i])
               /\ Exp16Biased(Data(arg[2])[i]) > 127) =>
           /\ pc = "raised"
           /\ stream = arg[4]

\* a UNITS record whose second value is too large has been refused, the
\* stream holding what it held before
C17_Witness ==
    /\ pc = "raised"
    /\ arg[1] = "save"
    /\ Tag(arg[2]) = UNITS
    /\ err[1] = "FormatError"
    /\ Data(arg[2])[2] = <<0, 1023 + 252, Zeros(13)>>
    /\ stream = EndlibFrame

(***************************************************************************)
(* C18: RecordData.points of a record of n values returns, for n not 0     *)
(* and even, the n/2 pairs (data[2i], data[2i+1]) in the order of the      *)
(* payload, [0,1,2,3,4,5] giving [(0,1),(2,3),(4,5)]; for n = 0 and for n  *)
(* odd it raises DataSizeError carrying the record's tag.                  *)
(***************************************************************************)
C18_Points ==
    (pc # "call" /\ arg[1] = "points") =>
        LET data == Data(arg[2])
            n == Len(data) IN
        IF n # 0 /\ n % 2 = 0
        THEN /\ pc = "returned"
             /\ Len(res.val) * 2 = n
             /\ \A k \in 0..(n - 1) :
                    res.val[(k \div 2) + 1][(k % 2) + 1] = data[k + 1]
             /\ data = <<0, 1, 2, 3, 4, 5>> =>
                    res.val = << <<0, 1>>, <<2, 3>>, <<4, 5>> >>
        ELSE /\ pc = "raised"
             /\ err = Raised("DataSizeError", Tag(arg[2]))

\* the points of the payload [0,1,2,3,4,5] have been returned
C18_Witness ==
    /\ pc = "returned"
    /\ arg[1] = "points"
    /\ Data(arg[2]) = <<0, 1, 2, 3, 4, 5>>
    /\ Len(res.val) = 3

(***************************************************************************)
(* C19: RecordData.times returns only for a payload of exactly 12 values,  *)
(* and then returns (modification time, access time) made of the values    *)
(* 0-5 and 6-11, the year being the stored value plus 1900; for every      *)
(* other number of values it raises DataSizeError carrying the record's    *)
(* tag.                                                                    *)
(***************************************************************************)
C19_Times ==
    (pc # "call" /\ arg[1] = "times") =>
        LET data == Data(arg[2]) IN
        /\ pc = "returned" =>
               /\ Len(data) = 12
               /\ Len(res.val) = 2
               /\ \A j \in 1..2 :
                      /\ res.val[j][1] = data[6 * j - 5] + 1900
                      /\ \A k \in 2..6 : res.val[j][k] = data[6 * j - 6 + k]
        /\ Len(data) # 12 =>
               /\ pc = "raised"
               /\ err = Raised("DataSizeError", Tag(arg[2]))

\* the times 2000-01-01 01:02:03 and 2010-08-14 21:10:35 have been returned
C19_Witness ==
    /\ pc = "returned"
    /\ arg[1] = "times"
    /\ Data(arg[2]) = <<100, 1, 1, 1, 2, 3, 110, 8, 14, 21, 10, 35>>
    /\ res.val = << <<2000, 1, 1, 1, 2, 3>>, <<2010, 8, 14, 21, 10, 35>> >>

(***************************************************************************)
(* C20: SimpleRecord.read for tag T raises MissingRecord carrying the tag  *)
(* of the current record when that tag is not T, and DataSizeError         *)
(* carrying the record's tag when the tag is T and the payload has not     *)
(* exactly one value; either way the generator has not been advanced and   *)
(* the attribute has not been set.  When the read returns, the attribute   *)
(* is the single value and the generator has been advanced by one record.  *)
(***************************************************************************)
C20_SimpleRecordRead ==
    [][pc = "read" =>
           /\ Tag(cur) # obj[3] =>
                  /\ pc' = "raised"
                  /\ err' = Raised("MissingRecord", Tag(cur))
                  /\ cur' = cur /\ pulled' = pulled
                  /\ elem' = elem
           /\ (Tag(cur) = obj[3] /\ Len(Data(cur)) # 1) =>
                  /\ pc' = "raised"
                  /\ err' = Raised("DataSizeError", Tag(cur))
                  /\ cur' = cur /\ pulled' = pulled
                  /\ elem' = elem
           /\ pc' # "raised" =>
                  /\ Tag(cur) = obj[3] /\ Len(Data(cur)) = 1
                  /\ elem' = SetAttr(elem, obj[2], Data(cur)[1])
                  /\ Len(pulled') = Len(pulled) + 1
                  /\ cur' = pulled'[Len(pulled')]]_vars

\* a LAYER record of two values has been refused, the element being without
\* a layer as before
C20_Witness ==
    /\ pc = "raised"
    /\ at = "read"
    /\ obj = layer
    /\ cur = RecordData(LAYER, <<1, 2>>)
    /\ err = Raised("DataSizeError", LAYER)
    /\ ~ HasAttr(elem, "_layer")
    /\ pulled = <<cur>>

(***************************************************************************)
(* C21: SimpleOptionalRecord.read for tag T.  When the current record has  *)
(* another tag the read returns without an exception, the generator where  *)
(* it was and the instance unchanged.  When it has tag T the record is     *)
(* consumed: exactly one more record is pulled, and the attribute becomes  *)
(* the record's value if the record holds exactly one value, while with    *)
(* any other number of values the read raises DataSizeError carrying T and *)
(* the instance is unchanged.  save emits the record of tag T with the     *)
(* attribute's value if the attribute is set, and nothing if it is not.    *)
(***************************************************************************)
\* the read has ended, next(gen) having raised nothing
ReadEnded ==
    pc \in {"return", "raised"} /\ at # "next"

C21_OptionalScalar ==
    /\ (ReadEnded /\ Tag(pulled[1]) # arg[1][3]) =>
           /\ pc = "return" /\ err = NoError
           /\ pulled = <<cur>>
           /\ elem = arg[2]
    /\ (ReadEnded /\ Tag(pulled[1]) = arg[1][3]) =>
           /\ Len(pulled) = 2
           /\ IF Len(Data(pulled[1])) = 1
              THEN /\ pc = "return" /\ err = NoError
                   /\ elem = SetAttr(arg[2], arg[1][2], Data(pulled[1])[1])
              ELSE /\ pc = "raised"
                   /\ err = Raised("DataSizeError", arg[1][3])
                   /\ elem = arg[2]
    /\ pc = "saved" =>
           /\ HasAttr(arg[2], arg[1][2]) =>
                  out = <<RecordData(arg[1][3], <<arg[2][arg[1][2]]>>)>>
           /\ ~ HasAttr(arg[2], arg[1][2]) => out = <<>>

\* a PLEX record has been consumed by plex.read and the element has its
\* value
C21_Witness ==
    /\ pc = "return"
    /\ arg[1] = plex
    /\ pulled[1] = RecordData(PLEX, <<1>>)
    /\ Len(pulled) = 2
    /\ ~ HasAttr(arg[2], "_plex")
    /\ elem["_plex"] = 1

\* C21 as stated: whenever the current record has tag T, the read consumes
\* it and sets the attribute
C21_ConsumesAndSets ==
    (ReadEnded /\ Tag(pulled[1]) = arg[1][3]) =>
        /\ pc = "return"
        /\ Len(pulled) = 2
        /\ HasAttr(elem, arg[1][2])
        /\ elem[arg[1][2]] = Data(pulled[1])[1]

(***************************************************************************)
(* C22: PropertiesRecord.read collects the consecutive PROPATTR, PROPVALUE *)
(* pairs into the list of (propattr, propvalue) in stream order, a         *)
(* repeated propattr giving an entry of its own; it returns at the first   *)
(* record that is not PROPATTR, which stays the current record; a PROPATTR *)
(* of one value followed by a record that is not PROPVALUE raises          *)
(* MissingRecord carrying that record's tag, and a PROPATTR that has not   *)
(* exactly one value raises DataSizeError.  A property list written by     *)
(* save and read back comes back in the same order with the same           *)
(* duplicates, each value without its last byte if that byte is NUL; when  *)
(* a value is empty the read back raises IncorrectDataSize.                *)
(***************************************************************************)
\* the properties the records recs spell, recs being pairs and one record
PairsOf(recs) ==
    [i \in 1..((Len(recs) - 1) \div 2) |->
        <<Data(recs[2 * i - 1])[1], Data(recs[2 * i])>>]

\* recs up to its k-th record is PROPATTR of one value, PROPVALUE,
\* alternating
Alternate(recs, k) ==
    \A i \in 1..k :
        IF i % 2 = 1
        THEN Tag(recs[i]) = PROPATTR /\ Len(Data(recs[i])) = 1
        ELSE Tag(recs[i]) = PROPVALUE

\* an ASCII value as it is read back
ReadBackValue(v) ==
    IF v[Len(v)] = 0 THEN SubSeq(v, 1, Len(v) - 1) ELSE v

TagBefore(k, tag) ==
    Len(pulled) >= k /\ Tag(pulled[Len(pulled) + 1 - k]) = tag

\* the last record pulled is an optional scalar that has not one value: the
\* read is going to raise DataSizeError whatever follows
ScalarOfWrongSize ==
    /\ pulled # <<>>
    /\ Tag(pulled[Len(pulled)]) \in {PLEX, PATHTYPE, WIDTH, MAG, ANGLE}
    /\ Len(Data(pulled[Len(pulled)])) # 1

\* the tags of recs that are among STRANS, MAG and ANGLE
TransformTags(recs) ==
    TagsOf(SelectSeq(recs, LAMBDA r : Tag(r) \in {STRANS, MAG, ANGLE}))

C23_Transform ==
    [][/\ (/\ HasAttr(elem, "_gds_tag")
           /\ elem["_gds_tag"] \in {SREF, AREF, TEXT}
           /\ pulled # <<>>
           /\ ~ TagBefore(1, ENDEL)
           /\ ~ ScalarOfWrongSize
           /\ pulled' # pulled
           /\ at' # "next"
           /\ Tag(cur') \in {MAG, ANGLE}) =>
              IF \/ TagBefore(1, STRANS)
                 \/ /\ Tag(cur') = ANGLE
                    /\ TagBefore(1, MAG)
                    /\ TagBefore(2, STRANS)
              THEN /\ pc' = "optional_read"
                   /\ rec' = cur'
                   /\ obj' = (IF Tag(cur') = MAG THEN mag ELSE angle)
                   /\ pulled' = Append(pulled, cur')
              ELSE /\ pc' = "raised"
                   /\ err' = Raised("MissingRecord", Tag(cur'))
       /\ pc' = "written" =>
              out' # <<>> /\
              TransformTags(out') =
                  IF HasAttr(elem, "_strans")
                  THEN <<STRANS>>
                       \o (IF HasAttr(elem, "_mag") THEN <<MAG>> ELSE <<>>)
                       \o (IF HasAttr(elem, "_angle") THEN <<ANGLE>> ELSE <<>>)
                  ELSE <<>>]_vars

\* an SRef whose mag is set and whose strans is not has been saved
C23_Witness ==
    /\ pc = "written"
    /\ elem["_gds_tag"] = SREF
    /\ HasAttr(elem, "_mag")
    /\ ~ HasAttr(elem, "_strans")
    /\ TransformTags(out) = <<>>

(***************************************************************************)
(* C24: a library header whose FORMAT record has code 1 or 3 is read past  *)
(* UNITS only when an ENDMASKS record stands between that FORMAT and       *)
(* UNITS, the MASK records between FORMAT and ENDMASKS.                    *)
(***************************************************************************)
C24_FormatNeedsMasks ==
    \A i \in DOMAIN pulled :
        \A j \in DOMAIN pulled :
            (/\ i < j
             /\ Tag(pulled[i]) = FORMAT
             /\ Data(pulled[i])[1] \in {1, 3}
             /\ Tag(pulled[j]) = UNITS)
            => \E k \in (i + 1)..(j - 1) :
                   /\ Tag(pulled[k]) = ENDMASKS
                   /\ \A m \in (i + 1)..(k - 1) : Tag(pulled[m]) = MASK

(***************************************************************************)
(* C25: a library read from a header with FORMAT of code 1, two MASK       *)
(* records and ENDMASKS is saved with the same FORMAT, MASK, MASK,         *)
(* ENDMASKS records between LIBNAME and UNITS.                             *)
(***************************************************************************)
\* the records of recs that are FORMAT, MASK or ENDMASKS
FormatRecords(recs) ==
    SelectSeq(recs, LAMBDA r : Tag(r) \in {FORMAT, MASK, ENDMASKS})

C25_FormatSaved ==
    (/\ pc = "saved"
     /\ TagsOf(FormatRecords(pulled)) = <<FORMAT, MASK, MASK, ENDMASKS>>)
    => /\ FormatRecords(out) = FormatRecords(pulled)
       /\ \E i \in DOMAIN out :
              /\ i + 5 <= Len(out)
              /\ Tag(out[i]) = LIBNAME
              /\ Tag(out[i + 1]) = FORMAT
              /\ Tag(out[i + 5]) = UNITS

(***************************************************************************)
(* C26: when a Boundary or Box element has been read up to its ENDEL, its  *)
(* XY record held a closed point list (first point equal to last), of at   *)
(* least 4 points for a Boundary, and the element holds these points       *)
(* without the closing one.                                                *)
(***************************************************************************)
\* an element has been read up to its ENDEL record
ElementRead ==
    /\ pulled # <<>>
    /\ Tag(pulled[Len(pulled)]) = ENDEL
    /\ HasAttr(elem, "_gds_tag")
    /\ HasAttr(elem, "_xy")

\* the points of the last XY record pulled
PointsRead ==
    points(pulled[CHOOSE j \in DOMAIN pulled :
                      /\ Tag(pulled[j]) = XY
                      /\ \A k \in (j + 1)..Len(pulled) : Tag(pulled[k]) # XY])

C26_ClosedShapes ==
    (ElementRead /\ elem["_gds_tag"] \in {BOUNDARY, BOX}) =>
        /\ PointsRead[1] = PointsRead[Len(PointsRead)]
        /\ elem["_gds_tag"] = BOUNDARY => Len(PointsRead) >= 4
        /\ elem["_xy"] = SubSeq(PointsRead, 1, Len(PointsRead) - 1)

(***************************************************************************)
(* C27: when an element has been read up to its ENDEL, its XY record held  *)
(* the number of points of its kind: Path at least 2, SRef exactly 1, ARef *)
(* exactly 3, Text exactly 1, Node at least 1, Box exactly 5.              *)
(***************************************************************************)
C27_PointCounts ==
    ElementRead =>
        CASE elem["_gds_tag"] = PATH -> Len(PointsRead) >= 2
          [] elem["_gds_tag"] \in {SREF, TEXT} -> Len(PointsRead) = 1
          [] elem["_gds_tag"] = AREF -> Len(PointsRead) = 3
          [] elem["_gds_tag"] = NODE -> Len(PointsRead) >= 1
          [] elem["_gds_tag"] = BOX -> Len(PointsRead) = 5
          [] OTHER -> TRUE

(***************************************************************************)
(* C28: a Boundary in memory of n >= 3 points, the first not repeated, is  *)
(* saved with an XY record of n + 1 points, the first point repeated at    *)
(* the end, and the library read back from the bytes written has the n     *)
(* points.                                                                 *)
(***************************************************************************)
\* the only element of the only structure of library l
OnlyElement(l) ==
    l["_structures"][1]["_elements"][1]

\* orig is a library of one Boundary of three points or more, not closed
OneBoundary ==
    /\ Len(orig["_structures"]) = 1
    /\ Len(orig["_structures"][1]["_elements"]) = 1
    /\ OnlyElement(orig)["_gds_tag"] = BOUNDARY
    /\ Len(OnlyElement(orig)["_xy"]) >= 3
    /\ OnlyElement(orig)["_xy"][1]
           # OnlyElement(orig)["_xy"][Len(OnlyElement(orig)["_xy"])]

C28_BoundaryClosure ==
    (pc # "memory" /\ OneBoundary) =>
        LET pts == OnlyElement(orig)["_xy"] IN
        /\ \E i \in DOMAIN out :
               /\ Tag(out[i]) = XY
               /\ Data(out[i]) = points_data(Append(pts, pts[1]))
        /\ pc = "loaded" => OnlyElement(lib)["_xy"] = pts

(***************************************************************************)
(* C29: the records Library.save writes are, by their tags and in this     *)
(* order and with no other record: HEADER, BGNLIB, LIBNAME, UNITS; for     *)
(* each structure in list order BGNSTR, STRNAME, then for each element in  *)
(* list order its opening tag, the tags of its fields that are written in  *)
(* the order its kind declares them, and ENDEL, then ENDSTR; and ENDLIB    *)
(* last.                                                                   *)
(***************************************************************************)
\* the field of tag is written for element e: a mandatory field always, an
\* optional one when its attribute is set, MAG and ANGLE when strans is
\* set as well
FieldWritten(e, tag) ==
    CASE tag = ELFLAGS -> HasAttr(e, "_elflags")
      [] tag = PLEX -> HasAttr(e, "_plex")
      [] tag = PATHTYPE -> HasAttr(e, "_path_type")
      [] tag = WIDTH -> HasAttr(e, "_width")
      [] tag = BGNEXTN -> HasAttr(e, "_bgn_extn")
      [] tag = ENDEXTN -> HasAttr(e, "_end_extn")
      [] tag = PRESENTATION -> HasAttr(e, "_presentation")
      [] tag = STRANS -> HasAttr(e, "_strans")
      [] tag = MAG -> HasAttr(e, "_strans") /\ HasAttr(e, "_mag")
      [] tag = ANGLE -> HasAttr(e, "_strans") /\ HasAttr(e, "_angle")
      [] tag \in {PROPATTR, PROPVALUE} -> FALSE
      [] OTHER -> TRUE

\* PROPATTR, PROPVALUE for each property of e
PropertyTags(e) ==
    IF HasAttr(e, "_properties")
    THEN [i \in 1..(2 * Len(e["_properties"])) |->
             IF i % 2 = 1 THEN PROPATTR ELSE PROPVALUE]
    ELSE <<>>

ElementOrder(e) ==
    <<e["_gds_tag"]>>
    \o SelectSeq(DeclaredOrder(e["_gds_tag"]), LAMBDA tag : FieldWritten(e, tag))
    \o PropertyTags(e)
    \o <<ENDEL>>

RECURSIVE ElementsOrder(_)
ElementsOrder(es) ==
    IF es = <<>> THEN <<>>
    ELSE ElementOrder(Head(es)) \o ElementsOrder(Tail(es))

RECURSIVE StructuresOrder(_)
StructuresOrder(sts) ==
    IF sts = <<>> THEN <<>>
    ELSE <<BGNSTR, STRNAME>> \o ElementsOrder(Head(sts)["_elements"])
         \o <<ENDSTR>> \o StructuresOrder(Tail(sts))

C29_SaveOrder ==
    (pc # "memory" /\ at # "save") =>
        /\ TagsOf(out) = <<HEADER, BGNLIB, LIBNAME, UNITS>>
                         \o StructuresOrder(orig["_structures"])
                         \o <<ENDLIB>>
        /\ orig["_structures"] = <<>> =>
               TagsOf(out) = <<HEADER, BGNLIB, LIBNAME, UNITS, ENDLIB>>

\* a library of two structures, the second of two elements, has been saved
C29_Witness ==
    /\ pc # "memory"
    /\ at # "save"
    /\ Len(orig["_structures"]) = 2
    /\ Len(orig["_structures"][2]["_elements"]) = 2
    /\ orig["_structures"][2]["_elements"][2]["_gds_tag"] = SREF
    /\ HasAttr(orig["_structures"][2]["_elements"][2], "_strans")
    /\ Len(out) > 20
    /\ Tag(out[Len(out)]) = ENDLIB

(***************************************************************************)
(* C30: all_records yields the records of the stream in stream order, and  *)
(* the first ENDLIB record is the last one it yields: the iteration then   *)
(* ends and the stream stands right after ENDLIB, whatever bytes follow;   *)
(* when the stream has no byte left and no ENDLIB was yielded, the         *)
(* iteration fails with EndOfFileError and does not end normally.          *)
(***************************************************************************)
\* where the i-th record of the stream starts, as the total_size fields of
\* the records before it say
RECURSIVE RecordStart(_)
RecordStart(i) ==
    IF i = 1 THEN 0
    ELSE LET p == RecordStart(i - 1) IN
         p + stream[p + 1] * 256 + stream[p + 2]

\* the tag in the header of the i-th record of the stream
TagInStream(i) ==
    stream[RecordStart(i) + 3] * 256 + stream[RecordStart(i) + 4]

YieldedInOrder ==
    /\ \A i \in DOMAIN pulled :
           /\ Tag(pulled[i]) = TagInStream(i)
           /\ Tag(pulled[i]) = ENDLIB => i = Len(pulled)
    /\ pc = "exhausted" <=>
           (pulled # <<>> /\ Tag(pulled[Len(pulled)]) = ENDLIB)
    /\ pc \in {"all_records", "exhausted"} =>
           spos = RecordStart(Len(pulled) + 1)
    /\ pc \in {"all_records", "exhausted", "raised"}

C30_AllRecords ==
    /\ []YieldedInOrder
    /\ [][/\ pc = "all_records"
          /\ Unread = 0 =>
                 /\ pc' = "raised"
                 /\ err'[1] = "EndOfFileError"
                 /\ pulled' = pulled]_vars

\* ENDLIB was yielded first and the iteration has ended with bytes unread
C30_Witness ==
    /\ pc = "exhausted"
    /\ Len(pulled) = 1
    /\ Tag(pulled[1]) = ENDLIB
    /\ spos = 4
    /\ Len(stream) > 6

(***************************************************************************)
(* C31: on a BufferedGenerator whose generator still yields, a current     *)
(* read made before any next call and before any other current read pulls  *)
(* exactly one record and returns it; every other current read pulls       *)
(* nothing and returns the record of the most recent pull; each next call  *)
(* pulls exactly one record, the next of the generator, and returns it.    *)
(* So the records pulled number the next calls, plus one when current was  *)
(* read first, and the only record held is the one pulled last.            *)
(***************************************************************************)
\* the reads and calls made so far that returned and were next calls
NextCalls ==
    {i \in DOMAIN arg : arg[i] = <<"next", TRUE>>}

CurrentReadFirst ==
    arg # <<>> /\ arg[1] = <<"current", TRUE>>

\* the read or call being made in this step
CallMade ==
    arg'[Len(arg')][1]

C31_OneRecordHeld ==
    /\ [](/\ Len(pulled) = Cardinality(NextCalls)
                           + (IF CurrentReadFirst THEN 1 ELSE 0)
          /\ pulled = SubSeq(stream, 1, spos)
          /\ cur = (IF pulled = <<>> THEN NoRecord
                    ELSE pulled[Len(pulled)]))
    /\ [][/\ Len(arg') = Len(arg) + 1
          /\ (CallMade = "next" /\ spos < Len(stream)) =>
                 /\ pulled' = Append(pulled, stream[spos + 1])
                 /\ res' = <<"return", stream[spos + 1]>>
          /\ (CallMade = "current" /\ arg = <<>> /\ spos < Len(stream)) =>
                 /\ pulled' = <<stream[1]>>
                 /\ res' = <<"return", stream[1]>>
          /\ (CallMade = "current" /\ pulled # <<>>) =>
                 /\ pulled' = pulled
                 /\ res' = <<"return", pulled[Len(pulled)]>>]_vars

\* current was read first, then next was called, then current was read twice
C31_Witness ==
    /\ arg = <<<<"current", TRUE>>, <<"next", TRUE>>, <<"current", TRUE>>,
               <<"current", TRUE>>>>
    /\ Len(pulled) = 2
    /\ res = <<"return", pulled[2]>>
    /\ Len(stream) = 3

(***************************************************************************)
(* C32: once a step of a Library read has failed, no further record is     *)
(* pulled from the record source, the caller receives the error of the     *)
(* failing step (one of MissingRecord, DataSizeError, IncorrectDataSize,   *)
(* UnsupportedTagType, EndOfFileError, FormatError, or ValueError and      *)
(* KeyError which the code raises as well): an error of the record source  *)
(* as the source raised it, a MissingRecord with the tag of the record in  *)
(* hand.  No Library, whole or partial, is returned or saved.              *)
(***************************************************************************)
ErrorsOfRead ==
    {"MissingRecord", "DataSizeError", "IncorrectDataSize",
     "UnsupportedTagType", "EndOfFileError", "FormatError", "ValueError",
     "KeyError"}

FloatZero ==
    <<0, 0, Zeros(13)>>

\* the mantissa bytes of the pattern decoded
MantissaBytes ==
    SubSeq(arg[2], 2, 8)

\* the position of the highest bit set of a byte that is not 0, from 0
HighBit(b) ==
    CHOOSE k \in 0..7 : 2 ^ k <= b /\ b < 2 ^ (k + 1)

\* the position of the highest bit set of a mantissa that is not zero
HighBitOfMantissa ==
    LET j == CHOOSE i \in 1..7 :
                 MantissaBytes[i] # 0 /\ \A h \in 1..(i - 1) :
                                             MantissaBytes[h] = 0 IN
    8 * (7 - j) + HighBit(MantissaBytes[j])

Decoded ==
    pc = "returned" /\ arg[1] = "_int_to_real"

C33_ZeroMantissa ==
    Decoded =>
        IF MantissaBytes = Zeros(7) THEN res.val = FloatZero
        ELSE /\ res.val # FloatZero
             /\ res.val[1] = arg[2][1] \div 128
             /\ res.val[2] = 1023 + 4 * ((arg[2][1] % 128) - 64) - 56
                             + HighBitOfMantissa

\* 0x4101000000000000 has been decoded, to 0.0625
C33_Witness ==
    /\ Decoded
    /\ arg[2] = <<65, 1, 0, 0, 0, 0, 0, 0>>
    /\ res.val = <<0, 1019, Zeros(13)>>

\* the claim as it stands: a mantissa that is zero or has a first
\* hexadecimal digit of zero decodes to 0.0
C33_UnnormalisedIsZero ==
    (Decoded /\ MantissaBytes[1] < 16) => res.val = FloatZero

(***************************************************************************)
(* C34: when RecordData.save of a record r succeeds, RecordData.read of    *)
(* the bytes written reads them all and returns a record of r's tag,       *)
(* unless r is an INT2, INT4, REAL8 or ASCII record with no data, which    *)
(* read refuses with IncorrectDataSize; the data returned equal r's data   *)
(* unless r is an ASCII record of even length ending in NUL, which comes   *)
(* back without the NUL, or a REAL8 record holding a denormal or a number  *)
(* too small for a GDSII real, which comes back as 0.0.                    *)
(***************************************************************************)
\* the record saved
SavedRecord ==
    arg[2]

ReadBack ==
    pc = "read back"

EmptyOfSizedType ==
    /\ Data(SavedRecord) = <<>>
    /\ type_of_tag(Tag(SavedRecord)) \in {INT2, INT4, REAL8, ASCII}

\* the float x is written as the GDSII real 0
WrittenAsZero(x) ==
    _real_to_int(x) = Returns(Zeros(8))

\* equal as Python floats are: 0.0 == -0.0
SameFloat(x, y) ==
    x = y \/ (x[2] = 0 /\ y[2] = 0 /\ x[3] = Zeros(13) /\ y[3] = Zeros(13))

\* what read is to return for the data saved
DataExpected ==
    LET d == Data(SavedRecord) IN
    CASE type_of_tag(Tag(SavedRecord)) = ASCII ->
             IF Len(d) % 2 = 0 /\ d[Len(d)] = 0 THEN SubSeq(d, 1, Len(d) - 1)
             ELSE d
      [] type_of_tag(Tag(SavedRecord)) = REAL8 ->
             [i \in DOMAIN d |->
                 IF WrittenAsZero(d[i]) THEN <<0, 0, Zeros(13)>> ELSE d[i]]
      [] OTHER -> d

C34_SaveThenRead ==
    ReadBack =>
        IF EmptyOfSizedType
        THEN err[1] = "IncorrectDataSize"
        ELSE /\ err = NoError
             /\ spos = Len(stream)
             /\ Tag(res.val) = Tag(SavedRecord)
             /\ Data(res.val) = DataExpected

\* the string "P\0" has been saved and read back as "P"
C34_Witness ==
    /\ ReadBack
    /\ SavedRecord = RecordData(PROPVALUE, <<80, 0>>)
    /\ stream = <<0, 6, 44, 6, 80, 0>>
    /\ res.val = RecordData(PROPVALUE, <<80>>)

\* the claim as it stands: whatever save accepts is read back equal
C34_ReadBackEqual ==
    ReadBack =>
        /\ err = NoError
        /\ Tag(res.val) = Tag(SavedRecord)
        /\ \/ Data(res.val) = Data(SavedRecord)
           \/ /\ type_of_tag(Tag(SavedRecord)) = REAL8
              /\ Len(Data(res.val)) = Len(Data(SavedRecord))
              /\ \A i \in DOMAIN Data(SavedRecord) :
                     SameFloat(Data(res.val)[i], Data(SavedRecord)[i])

(***************************************************************************)
(* C35: a value that _real_to_int returns and that is not 0 is a 64-bit    *)
(* pattern with its fields apart: eight bytes, the first the sign bit of   *)
(* the float over an exponent field in 0..0x7f, the other seven the        *)
(* mantissa, below 2^56, whose first hexadecimal digit is not zero.        *)
(***************************************************************************)
ReturnedNonZero ==
    /\ pc = "returned"
    /\ arg[1] = "_real_to_int"
    /\ res.val # Zeros(8)

C35_FieldsApart ==
    ReturnedNonZero =>
        /\ Len(res.val) = 8
        /\ \A i \in 1..8 : res.val[i] \in 0..255
        /\ res.val[1] \div 128 = arg[2][1]
        /\ res.val[1] % 128 \in 0..127
        /\ res.val[2] >= 16

\* a negative float of the largest exponent has been converted
C35_Witness ==
    /\ ReturnedNonZero
    /\ res.val[1] = 255
    /\ arg[2][1] = 1

(***************************************************************************)
(* C36: a Library read over a finite record sequence ends, with a Library  *)
(* or with an error; every step of the read that does not end it in an     *)
(* error, in whichever of the structure loop, the element loop, the        *)
(* property loop and the MASK loop it stands, pulls exactly one new        *)
(* record, so the records still to come decrease with every step.          *)
(***************************************************************************)
ReadOver ==
    pc \in {"loaded", "raised", "saved"}

C36_Terminates ==
    /\ <>ReadOver
    /\ [][IF pc = "loaded" THEN pc' = "saved" /\ pulled' = pulled
          ELSE /\ ~ ReadOver
               /\ pc' # "raised" =>
                      /\ Len(pulled') = Len(pulled) + 1
                      /\ Len(pulled') <= limit]_vars

\* the element loop is in its second round and the property loop has gone
\* round twice
C36_Witness ==
    /\ ~ ReadOver
    /\ Len(props) = 2
    /\ strc # EmptyObject
    /\ Len(strc["_elements"]) = 1

(***************************************************************************)
(* C37: a Library read that succeeds has pulled the records up to and      *)
(* including ENDLIB and no more: ENDLIB is the last record pulled and the  *)
(* only ENDLIB, the record before it is UNITS or the last structure's      *)
(* ENDSTR, and nothing is pulled afterwards.  After UNITS or an ENDSTR one *)
(* record is pulled, and the read ends with the Library exactly when that  *)
(* record is ENDLIB.                                                       *)
(***************************************************************************)
LastPulled ==
    Tag(pulled[Len(pulled)])

C37_StopsAtEndlib ==
    /\ [](pc \in {"loaded", "saved"} =>
              /\ Len(pulled) >= 5
              /\ LastPulled = ENDLIB
              /\ Tag(pulled[Len(pulled) - 1]) \in {UNITS, ENDSTR}
              /\ \A i \in 1..(Len(pulled) - 1) : Tag(pulled[i]) # ENDLIB)
    /\ [][/\ pc \in {"loaded", "saved"} => pulled' = pulled
          /\ (/\ pc \notin {"loaded", "saved", "raised"}
              /\ pulled # <<>>
              /\ LastPulled \in {UNITS, ENDSTR}
              /\ pc' # "raised") =>
                 /\ pulled' = Append(pulled, cur')
                 /\ pc' = "loaded" <=> Tag(cur') = ENDLIB]_vars

\* a library of one structure has been read to its ENDLIB with records
\* still to come from the source
C37_Witness ==
    /\ pc = "loaded"
    /\ Len(lib["_structures"]) = 1
    /\ Tag(pulled[Len(pulled) - 1]) = ENDSTR
    /\ Len(pulled) < limit

(***************************************************************************)
(* C38: the Library read does not depend on the records LIBDIRSIZE,        *)
(* SRFNAME, LIBSECUR, REFLIBS, FONTS, ATTRTABLE, GENERATIONS, FORMAT,      *)
(* MASK, ENDMASKS and STRCLASS: an accepted record sequence gives the      *)
(* Library that the same sequence without these records gives, which is    *)
(* accepted as well, so two accepted sequences that differ only in these   *)
(* records, present or not and whatever their payload, give equal          *)
(* Libraries, and Library.save emits the same records for both.            *)
(***************************************************************************)
IgnoredTags ==
    {LIBDIRSIZE, SRFNAME, LIBSECUR, REFLIBS, FONTS, ATTRTABLE, GENERATIONS,
     FORMAT, MASK, ENDMASKS, STRCLASS}

\* the records pulled without those the claim names
WithoutIgnored ==
    SelectSeq(pulled, LAMBDA r : Tag(r) \notin IgnoredTags)

\* Library.__init__ over these records alone
ReadWithoutIgnored ==
    Feed(Reader0, WithoutIgnored)

C38_IgnoredRecords ==
    (pc \in {"loaded", "saved"}) =>
        /\ ReadWithoutIgnored.pc = "loaded"
        /\ ReadWithoutIgnored.lib = lib
        /\ pc = "saved" =>
               /\ out = Library_save(ReadWithoutIgnored.lib)
               /\ \A i \in DOMAIN out : Tag(out[i]) \notin IgnoredTags

\* a sequence with LIBDIRSIZE and STRCLASS in it has been read and saved
C38_Witness ==
    /\ pc = "saved"
    /\ \E i \in DOMAIN pulled : Tag(pulled[i]) = LIBDIRSIZE
    /\ \E i \in DOMAIN pulled : Tag(pulled[i]) = STRCLASS
    /\ Len(lib["_structures"]) = 1

====
